---- MODULE Spec2Model ----
(***************************************************************************)
(* A model of the kube client facade (src/src/kube/kube.py): the request   *)
(* wrappers _wrapper / _wrapper_create, the per-kind create / get / list / *)
(* delete / scale methods built on them, the streaming executor _exec with *)
(* its callers run_command and copy_file_from_pod, wait_pods and           *)
(* scale_down_all; and of the manifest builders                            *)
(* (src/src/kube/manifests.py).                                            *)
(*                                                                         *)
(* A facade call is one action, a loop that talks to the cluster one       *)
(* action per pass.  The cluster is the environment: it answers a          *)
(* well-formed request with an HTTP status chosen freely.  What the facade *)
(* hands to the client library is recorded in `calls`, what the caller     *)
(* gets back in `result`.                                                  *)
(*                                                                         *)
(* Six specifications share the variables: SpecApi (single requests),      *)
(* SpecExec (the executor), SpecWait (wait_pods, scaling with wait,        *)
(* scale_down_all), SpecBuild (the builders), SpecNew (the construction of *)
(* the facade) and SpecStatus (PodStatus and JobStatus).                   *)
(***************************************************************************)
EXTENDS Integers, Sequences, FiniteSets, TLC

VARIABLES
    ns,        \* KubeApi._ns, the facade's default namespace
    call,      \* the facade call being made: method, kind and its arguments
    calls,     \* the client-library invocations the call made, in order
    result,    \* what the call gave its caller: return value or exception
    epc,       \* position of the executor: idle, loop (streaming), done (_exec
               \* reached its end), aborted (an exception cut it short)
    ecall,     \* the executor call: entry point, command, keyword arguments,
               \* and the frames the remote end sends in answer to it
    wire,      \* frames the remote end has still to deliver, in order
    chan,      \* the transport r: open flag, buffered channels
    sinks,     \* what was written to the stdout and the stderr sink
    fd,        \* the FileWriter's file handle: none / open / closed
    eresult,   \* what the executor call gave its caller
    wpods,     \* the running wait_pods: position, remaining timeout, time slept
    sdall,     \* the running scale_down_all: position, items still to visit
    bld,       \* the manifest builder under study
    emitted,   \* the manifests the builder has handed out, in order
    bcall,     \* the call made last on the builder, and the state it began in
    asked,     \* what the calls accepted so far asked the builder to hold
    env,       \* where the program runs: environment variables, the namespace
               \* file of the service account, the kubeconfig
    ctor,      \* the construction of the facade: arguments and outcome
    stat       \* the PodStatus / JobStatus object under study

apiVars  == <<ns, call, calls, result>>
execVars == <<epc, ecall, wire, chan, sinks, fd, eresult>>
waitVars  == <<wpods, sdall>>
buildVars == <<bld, emitted, bcall, asked>>
newVars   == <<env, ctor, stat>>
vars     == <<ns, call, calls, result, epc, ecall, wire, chan, sinks, fd, eresult,
              wpods, sdall, bld, emitted, bcall, asked, env, ctor, stat>>

-----------------------------------------------------------------------------
(* Keyword-argument dictionaries: functions from key to value.             *)

EmptyKw == <<>>

\* dict.pop(k, d) / dict.get(k, d): the value under k, else the default d
KwGet(kw, k, d) == IF k \in DOMAIN kw THEN kw[k] ELSE d

\* the dictionary left once k was popped
KwPop(kw, k) == [x \in (DOMAIN kw) \ {k} |-> kw[x]]

\* dict.setdefault(k, d) and kw[k] = v
KwSetDefault(kw, k, d) == IF k \in DOMAIN kw THEN kw ELSE (k :> d) @@ kw
KwSet(kw, k, v) == (k :> v) @@ kw

-----------------------------------------------------------------------------
(* The kinds of the facade and the client-library endpoints.               *)

Kinds == {"configmap", "cron_job", "custom_object", "job", "deployment", "ingress",
          "namespace", "pod", "pvc", "secret", "service", "stateful_set"}

\* CustomObjectDef(group, version, plural); NoneDef stands for None
NoneDef == [group |-> "", version |-> "", plural |-> ""]
Routes  == [group |-> "route.openshift.io", version |-> "v1", plural |-> "routes"]

\* a client-library function: verb_scope_kind, e.g. delete_namespaced_pod
Func(verb, kind, scope) == [verb |-> verb, kind |-> kind, scope |-> scope]

\* number of positional parameters of the library function
Arity(func) ==
    IF func.kind = "custom_object"
    THEN (IF func.verb = "list" THEN 3 ELSE 4) + (IF func.scope = "namespaced" THEN 1 ELSE 0)
    ELSE (IF func.verb = "list" THEN 0 ELSE 1) + (IF func.scope = "namespaced" THEN 1 ELSE 0)

\* keyword arguments a library function takes besides its positional ones
LibraryKw == {"propagation_policy", "body", "field_selector", "label_selector"}

HttpAnswers == {200, 404, 409, 500}

\* no request wrapper was entered
NoVia == [wrapper |-> "none", check_err |-> FALSE, ret |-> "None", exc |-> "none"]

\* the outcome of one facade call: the library invocations made, the value
\* returned or the exception raised, the HTTP status received (0: none), the
\* level logged at, and in via what the request wrapper itself returned
Outcome(cs, ret, exc, status, log) ==
    [calls |-> cs, ret |-> ret, exc |-> exc, status |-> status, log |-> log, via |-> NoVia]

\* out as the outcome of the request wrapper `wrapper` entered with check_err
Via(out, wrapper, check_err) ==
    [out EXCEPT !.via = [wrapper |-> wrapper, check_err |-> check_err,
                         ret |-> out.ret, exc |-> out.exc]]

\* func(*args, **kw): Python rejects a call that does not fit the signature,
\* otherwise the request is sent and the cluster answers
Invoke(func, args, kw, answer) ==
    LET c == <<[func |-> func, args |-> args, kw |-> kw]>>
    IN  IF Len(args) # Arity(func) \/ ~((DOMAIN kw) \subseteq LibraryKw)
        THEN Outcome(c, "None", "TypeError", 0, "none")
        ELSE IF answer = 200
             THEN Outcome(c, "resp", "none", 200, "none")
             ELSE Outcome(c, "None", "ApiException", answer, "none")

-----------------------------------------------------------------------------
(* The request wrappers.                                                   *)

\* _wrapper_except with the 404 branch left out: a 404 follows check_err
_wrapper_except_without_404(out, check_err) ==
    IF out.exc # "ApiException" THEN out
    ELSE IF check_err THEN out
    ELSE Outcome(out.calls, "None", "none", out.status, "error")

\* except ApiException of _wrapper: 404 is swallowed, the rest by check_err
_wrapper_except(out, check_err) ==
    IF out.exc # "ApiException" THEN out
    ELSE IF out.status = 404 THEN Outcome(out.calls, "None", "none", out.status, "debug")
    ELSE IF check_err THEN out
    ELSE Outcome(out.calls, "None", "none", out.status, "error")

\* _wrapper(func, obj_name, check_err, **kwall), kwall the keyword arguments of
\* the call site (namespaced and custom_object_def among them)
_wrapper(func, obj_name, check_err, kwall, answer) ==
    LET namespaced        == KwGet(kwall, "namespaced", TRUE)
        custom_object_def == KwGet(kwall, "custom_object_def", NoneDef)
        kwargs0 == KwPop(KwPop(kwall, "namespaced"), "custom_object_def")
        n       == KwGet(kwargs0, "namespace", ns)
        kwargs  == KwPop(kwargs0, "namespace")
        args    == IF custom_object_def # NoneDef
                   THEN <<custom_object_def.group, custom_object_def.version, n,
                          custom_object_def.plural, obj_name>>
                   ELSE IF namespaced THEN <<obj_name, n>> ELSE <<obj_name>>
        out     == Invoke(func, args, kwargs, answer)
    IN  IF "check_err" \in DOMAIN kwall
        THEN Outcome(<<>>, "None", "TypeError", 0, "none")
        ELSE IF out.exc = "none"
             THEN Via(Outcome(out.calls, out.ret, "none", out.status, "debug"),
                      "_wrapper", check_err)
             ELSE Via(_wrapper_except(out, check_err), "_wrapper", check_err)

\* _wrapper_create_except testing for 404 where the code tests for 409
_wrapper_create_except_on_404(out, check_err) ==
    IF out.exc # "ApiException" THEN out
    ELSE IF out.status = 404 THEN Outcome(out.calls, "None", "none", out.status, "debug")
    ELSE IF check_err THEN out
    ELSE Outcome(out.calls, "None", "none", out.status, "error")

\* except ApiException of _wrapper_create: 409 is swallowed, the rest by check_err
_wrapper_create_except(out, check_err) ==
    IF out.exc # "ApiException" THEN out
    ELSE IF out.status = 409 THEN Outcome(out.calls, "None", "none", out.status, "debug")
    ELSE IF check_err THEN out
    ELSE Outcome(out.calls, "None", "none", out.status, "error")

\* _wrapper_create(func, obj, check_err, **kwall): it has no custom_object_def
\* parameter, so that keyword stays in kwargs and travels on to func
_wrapper_create(func, obj, check_err, kwall, answer) ==
    LET namespaced == KwGet(kwall, "namespaced", TRUE)
        kwargs0 == KwPop(kwall, "namespaced")
        n       == KwGet(kwargs0, "namespace", ns)
        kwargs  == KwPop(kwargs0, "namespace")
        args    == IF namespaced THEN <<n, obj>> ELSE <<obj>>
        out     == Invoke(func, args, kwargs, answer)
    IN  IF "check_err" \in DOMAIN kwall
        THEN Outcome(<<>>, "None", "TypeError", 0, "none")
        ELSE IF out.exc = "none"
             THEN Via(Outcome(out.calls, out.ret, "none", out.status, "debug"),
                      "_wrapper_create", check_err)
             ELSE Via(_wrapper_create_except(out, check_err), "_wrapper_create", check_err)

-----------------------------------------------------------------------------
(* The per-kind methods.  kw holds the keyword arguments of the caller;    *)
(* a method that declares check_err binds it, the others leave it in       *)
(* **kwargs.  namespaced is read by the custom_object methods only.        *)

Scope(namespaced) == IF namespaced THEN "namespaced" ELSE "cluster"

\* create_check_err_default with namespace_create defaulting to True as well
create_check_err_default_always_true(kind) == TRUE

\* <kind>_create: check_err defaults to True, for namespace_create to False
create_check_err_default(kind) == kind # "namespace"

create(kind, obj, namespaced, kw, answer) ==
    LET check_err == KwGet(kw, "check_err", create_check_err_default(kind))
        kwargs    == KwPop(kw, "check_err")
    IN  CASE kind = "custom_object" ->
               _wrapper_create(Func("create", kind, Scope(namespaced)), obj, check_err,
                               ("namespaced" :> namespaced) @@ ("custom_object_def" :> Routes)
                                   @@ kwargs, answer)
          [] kind = "namespace" ->
               _wrapper_create(Func("create", kind, "cluster"), obj, check_err,
                               ("namespaced" :> FALSE) @@ kwargs, answer)
          [] OTHER ->
               _wrapper_create(Func("create", kind, "namespaced"), obj, check_err,
                               kwargs, answer)

\* <kind>_get: namespace_get declares no check_err and passes False
get_declares_check_err(kind) == kind # "namespace"

get(kind, name, namespaced, kw, answer) ==
    LET check_err == IF get_declares_check_err(kind) THEN KwGet(kw, "check_err", TRUE)
                     ELSE FALSE
        kwargs    == IF get_declares_check_err(kind) THEN KwPop(kw, "check_err") ELSE kw
    IN  CASE kind = "custom_object" ->
               _wrapper(Func("read", kind, Scope(namespaced)), name, check_err,
                        ("namespaced" :> namespaced) @@ ("custom_object_def" :> Routes)
                            @@ kwargs, answer)
          [] kind = "namespace" ->
               _wrapper(Func("read", kind, "cluster"), name, check_err,
                        ("namespaced" :> FALSE) @@ kwargs, answer)
          [] OTHER ->
               _wrapper(Func("read", kind, "namespaced"), name, check_err, kwargs, answer)

\* <kind>_delete: only ingress_delete declares check_err (default True), the
\* others pass False; every delete but ingress_delete defaults the policy
delete_declares_check_err(kind) == kind = "ingress"
delete_sets_propagation_policy(kind) == kind # "ingress"

delete(kind, name, namespaced, kw, answer) ==
    LET check_err == IF delete_declares_check_err(kind) THEN KwGet(kw, "check_err", TRUE)
                     ELSE FALSE
        kwargs0   == IF delete_declares_check_err(kind) THEN KwPop(kw, "check_err") ELSE kw
        kwargs    == IF delete_sets_propagation_policy(kind)
                     THEN KwSetDefault(kwargs0, "propagation_policy", "Foreground")
                     ELSE kwargs0
    IN  CASE kind = "custom_object" ->
               _wrapper(Func("delete", kind, Scope(namespaced)), name, check_err,
                        ("namespaced" :> namespaced) @@ ("custom_object_def" :> Routes)
                            @@ kwargs, answer)
          [] kind = "namespace" ->
               _wrapper(Func("delete", kind, "cluster"), name, check_err,
                        ("namespaced" :> FALSE) @@ kwargs, answer)
          [] OTHER ->
               _wrapper(Func("delete", kind, "namespaced"), name, check_err, kwargs, answer)

\* <kind>_list: no wrapper, the library's exception reaches the caller;
\* deployment_list passes self._ns and leaves namespace in kwargs
list_pops_namespace(kind) == kind \notin {"deployment", "namespace"}

list(kind, namespaced, kw, answer) ==
    LET n      == IF list_pops_namespace(kind) THEN KwGet(kw, "namespace", ns) ELSE ns
        kwargs == IF list_pops_namespace(kind) THEN KwPop(kw, "namespace") ELSE kw
    IN  CASE kind = "custom_object" ->
               IF namespaced
               THEN Invoke(Func("list", kind, "namespaced"),
                           <<Routes.group, Routes.version, n, Routes.plural>>, kwargs, answer)
               ELSE Invoke(Func("list", kind, "cluster"),
                           <<Routes.group, Routes.version, Routes.plural>>, kw, answer)
          [] kind = "namespace" ->
               Invoke(Func("list", kind, "cluster"), <<>>, kw, answer)
          [] OTHER ->
               Invoke(Func("list", kind, "namespaced"), <<n>>, kwargs, answer)

-----------------------------------------------------------------------------
(* Scaling.                                                                *)

RECURSIVE JoinWith(_, _)
\* sep.join(words)
JoinWith(sep, words) ==
    IF words = <<>> THEN ""
    ELSE IF Len(words) = 1 THEN Head(words)
    ELSE Head(words) \o sep \o JoinWith(sep, Tail(words))

\* dict_to_labels(data), data the label map as its (key, value) items in order
dict_to_labels(data) ==
    JoinWith(",", [i \in 1..Len(data) |-> data[i][1] \o "=" \o data[i][2]])

NoWait == [started |-> FALSE, selector |-> ""]

\* _scale(func, name, replicas, wait, **kw); labels are
\* spec.template.metadata.labels of the object the PATCH returns.  The
\* result is the wrapper's outcome and whether wait_pods was entered.
_scale(func, name, replicas, wait, kw, answer, labels) ==
    LET kwargs == KwSet(kw, "body", [spec |-> [replicas |-> replicas]])
        resp   == _wrapper(func, name, TRUE, kwargs, answer)
    IN  IF resp.exc # "none"
        THEN [out |-> resp, wait |-> NoWait]
        ELSE IF resp.ret = "None"
        THEN [out |-> [resp EXCEPT !.exc = "AttributeError"], wait |-> NoWait]
        ELSE [out |-> resp,
              wait |-> IF wait THEN [started |-> TRUE, selector |-> dict_to_labels(labels)]
                       ELSE NoWait]

scale_deployment(name, replicas, wait, kw, answer, labels) ==
    _scale(Func("patch", "deployment", "namespaced"), name, replicas, wait, kw, answer, labels)

scale_stateful_set(name, replicas, wait, kw, answer, labels) ==
    _scale(Func("patch", "stateful_set", "namespaced"), name, replicas, wait, kw, answer, labels)

-----------------------------------------------------------------------------
(* The facade calls as actions.                                            *)

DefaultNamespaces == {"default", "team-a"}
NamespaceArgs     == {"ns1", "ns2"}
PolicyArgs        == {"Background", "Orphan"}
Names             == {"web"}
LabelMaps         == {<<<<"app", "web">>>>, <<<<"app", "web">>, <<"tier", "fe">>>>}
MaxReplicas       == 1

OptNamespace == {EmptyKw} \cup {("namespace" :> n) : n \in NamespaceArgs}
OptCheckErr  == {EmptyKw} \cup {("check_err" :> b) : b \in BOOLEAN}
OptPolicy    == {EmptyKw} \cup {("propagation_policy" :> p) : p \in PolicyArgs}

\* namespaced is an argument of the custom_object methods only
NamespacedArgs(kind) == IF kind = "custom_object" THEN BOOLEAN ELSE {TRUE}

NoCall   == [op |-> "none", kind |-> "none", name |-> "", namespaced |-> TRUE,
             kw |-> EmptyKw, answer |-> 0]
NoResult == [ret |-> "None", exc |-> "none", status |-> 0, log |-> "none", via |-> NoVia,
             wait |-> NoWait]

ExecIdle ==
    /\ epc = "idle"
    /\ ecall = [entry |-> "none", command |-> <<>>, kw |-> EmptyKw]
    /\ wire = <<>>
    /\ chan = [open |-> FALSE, stdout |-> <<>>, stderr |-> <<>>, error |-> <<>>]
    /\ sinks = [stdout |-> <<>>, stderr |-> <<>>, stdout_kind |-> "none",
                stderr_kind |-> "none"]
    /\ fd = "none"
    /\ eresult = [ret |-> "None", exc |-> "none", exec_ret |-> "None", exec_exc |-> "none",
                  msg |-> [cmd |-> "", code |-> 0],
                  err |-> [none |-> TRUE, status |-> "", message |-> <<>>]]

\* no wait_pods is running
NoWaitPods ==
    [pc |-> "idle", exc |-> "none", label_selector |-> "", delay |-> 0, timeout |-> 0,
     start_delay |-> 0, given |-> 0, slept |-> 0, lists |-> 0, items |-> <<>>,
     request |-> <<>>]

\* no scale_down_all is running
NoScaleDown ==
    [pc |-> "idle", exc |-> "none", todo |-> <<>>, deployments |-> <<>>,
     stateful_sets |-> <<>>, listed |-> <<>>]

WaitIdle ==
    /\ wpods = NoWaitPods
    /\ sdall = NoScaleDown

NoBuilder == [kind |-> "none"]

\* the call made last on the builder: method, arguments, exception, the
\* method called before it, the number of calls so far and, in before, the
\* builder and the content of the manifests as they were when it began
NoBuilderCall ==
    [op |-> "none", args |-> <<>>, exc |-> "none", prior |-> "none", n |-> 0,
     before |-> [b |-> NoBuilder, contents |-> <<>>]]

\* the ledger of what was asked of the builder: the match labels last set,
\* and per (key, operator), per host and path and per secret the arguments
\* of the first accepted add, in the order of the adds
NoAsked == [match_labels |-> <<>>, exprs |-> <<>>, rules |-> <<>>, tls |-> <<>>]

BuildIdle ==
    /\ bld = NoBuilder
    /\ emitted = <<>>
    /\ bcall = NoBuilderCall
    /\ asked = NoAsked

\* no facade under construction, no status object
NoEnv    == [set |-> FALSE]
NoCtor   == [pc |-> "none"]
NoStatus == [class |-> "none"]
NewIdle  == env = NoEnv /\ ctor = NoCtor /\ stat = NoStatus

ApiInit ==
    /\ ns \in DefaultNamespaces
    /\ call = NoCall
    /\ calls = <<>>
    /\ result = NoResult
    /\ ExecIdle
    /\ WaitIdle
    /\ BuildIdle
    /\ NewIdle

\* what the caller of a facade call is given
Result(out, w) ==
    [ret |-> out.ret, exc |-> out.exc, status |-> out.status, log |-> out.log,
     via |-> out.via, wait |-> w]

\* the facade is between two calls
Ready == call.op = "none"

Create ==
    \E kind \in Kinds, name \in Names, a \in OptNamespace, b \in OptCheckErr,
       answer \in HttpAnswers :
      \E namespaced \in NamespacedArgs(kind) :
        LET out == create(kind, name, namespaced, a @@ b, answer)
        IN  /\ Ready
            /\ call' = [op |-> "create", kind |-> kind, name |-> name,
                        namespaced |-> namespaced, kw |-> a @@ b, answer |-> answer]
            /\ calls' = out.calls
            /\ result' = Result(out, NoWait)
            /\ UNCHANGED <<newVars, waitVars, buildVars,
                            ns, epc, ecall, wire, chan, sinks, fd, eresult>>

Get ==
    \E kind \in Kinds, name \in Names, a \in OptNamespace, b \in OptCheckErr,
       answer \in HttpAnswers :
      \E namespaced \in NamespacedArgs(kind) :
        LET out == get(kind, name, namespaced, a @@ b, answer)
        IN  /\ Ready
            /\ call' = [op |-> "get", kind |-> kind, name |-> name,
                        namespaced |-> namespaced, kw |-> a @@ b, answer |-> answer]
            /\ calls' = out.calls
            /\ result' = Result(out, NoWait)
            /\ UNCHANGED <<newVars, waitVars, buildVars,
                            ns, epc, ecall, wire, chan, sinks, fd, eresult>>

Delete ==
    \E kind \in Kinds, name \in Names, a \in OptNamespace, b \in OptCheckErr,
       p \in OptPolicy, answer \in HttpAnswers :
      \E namespaced \in NamespacedArgs(kind) :
        LET out == delete(kind, name, namespaced, a @@ b @@ p, answer)
        IN  /\ Ready
            /\ call' = [op |-> "delete", kind |-> kind, name |-> name,
                        namespaced |-> namespaced, kw |-> a @@ b @@ p, answer |-> answer]
            /\ calls' = out.calls
            /\ result' = Result(out, NoWait)
            /\ UNCHANGED <<newVars, waitVars, buildVars,
                            ns, epc, ecall, wire, chan, sinks, fd, eresult>>

List ==
    \E kind \in Kinds, a \in OptNamespace, answer \in HttpAnswers :
      \E namespaced \in NamespacedArgs(kind) :
        LET out == list(kind, namespaced, a, answer)
        IN  /\ Ready
            /\ call' = [op |-> "list", kind |-> kind, name |-> "",
                        namespaced |-> namespaced, kw |-> a, answer |-> answer]
            /\ calls' = out.calls
            /\ result' = Result(out, NoWait)
            /\ UNCHANGED <<newVars, waitVars, buildVars,
                            ns, epc, ecall, wire, chan, sinks, fd, eresult>>

ScaleDeployment ==
    \E name \in Names, replicas \in 0..MaxReplicas, wait \in BOOLEAN, a \in OptNamespace,
       answer \in HttpAnswers, labels \in LabelMaps :
      LET r == scale_deployment(name, replicas, wait, a, answer, labels)
      IN  /\ Ready
          /\ call' = [op |-> "scale", kind |-> "deployment", name |-> name,
                      namespaced |-> TRUE, kw |-> a, answer |-> answer,
                      replicas |-> replicas, wait |-> wait, labels |-> labels]
          /\ calls' = r.out.calls
          /\ result' = Result(r.out, r.wait)
          /\ UNCHANGED <<newVars, waitVars, buildVars,
                          ns, epc, ecall, wire, chan, sinks, fd, eresult>>

ScaleStatefulSet ==
    \E name \in Names, replicas \in 0..MaxReplicas, wait \in BOOLEAN, a \in OptNamespace,
       answer \in HttpAnswers, labels \in LabelMaps :
      LET r == scale_stateful_set(name, replicas, wait, a, answer, labels)
      IN  /\ Ready
          /\ call' = [op |-> "scale", kind |-> "stateful_set", name |-> name,
                      namespaced |-> TRUE, kw |-> a, answer |-> answer,
                      replicas |-> replicas, wait |-> wait, labels |-> labels]
          /\ calls' = r.out.calls
          /\ result' = Result(r.out, r.wait)
          /\ UNCHANGED <<newVars, waitVars, buildVars,
                          ns, epc, ecall, wire, chan, sinks, fd, eresult>>

\* the caller has its answer; the facade is ready for the next call
Return ==
    /\ ~Ready
    /\ call' = NoCall
    /\ calls' = <<>>
    /\ result' = NoResult
    /\ UNCHANGED <<newVars, waitVars, buildVars,
                    ns, epc, ecall, wire, chan, sinks, fd, eresult>>

ApiNext == Create \/ Get \/ Delete \/ List \/ ScaleDeployment \/ ScaleStatefulSet \/ Return

SpecApi == ApiInit /\ [][ApiNext]_vars

-----------------------------------------------------------------------------
(* The streaming executor.  Text is a sequence of characters.  The remote  *)
(* end delivers frames (channel, data) in the order of `wire`, the status  *)
(* document on the error channel, and closes the channel last.             *)

MaxFrames == 2

Commands == {<<"false">>, <<"ls", "-l">>}
StdoutChunks == {<<"a">>, <<"b", "\n">>}
StderrChunks == {<<"e", "\n">>}
RemotePaths == {"/etc/hosts"}
ExitCodes == {1, 127}

Digits == <<"0", "1", "2", "3", "4", "5", "6", "7", "8", "9">>

RECURSIVE Decimal(_)
\* the decimal text of n, as the remote end writes an exit code
Decimal(n) == IF n < 10 THEN <<Digits[n + 1]>>
              ELSE Decimal(n \div 10) \o <<Digits[(n % 10) + 1]>>

RECURSIVE int(_)
\* int(text) of a text of decimal digits
int(text) ==
    LET d == (CHOOSE i \in 1..10 : Digits[i] = text[Len(text)]) - 1
    IN  IF Len(text) = 1 THEN d ELSE 10 * int(SubSeq(text, 1, Len(text) - 1)) + d

\* the status documents of the remote end, serialized as (path, text) items
StatusSuccess == <<<<"status", "Success">>>>
StatusFailure(code) ==
    <<<<"status", "Failure">>, <<"details.causes.0.message", Decimal(code)>>>>
Payloads == {<<>>, StatusSuccess} \cup {StatusFailure(c) : c \in ExitCodes}

NoneDoc == [none |-> TRUE, status |-> "", message |-> <<>>]

\* yaml.safe_load(e): None for an empty payload, else the document
safe_load(e) ==
    IF e = <<>> THEN NoneDoc
    ELSE LET at(path) == {i \in 1..Len(e) : e[i][1] = path}
         IN  [none    |-> FALSE,
              status  |-> IF at("status") = {} THEN ""
                          ELSE e[CHOOSE i \in at("status") : TRUE][2],
              message |-> IF at("details.causes.0.message") = {} THEN <<>>
                          ELSE e[CHOOSE i \in at("details.causes.0.message") : TRUE][2]]

\* the frames a remote command can send before the status document
DataFrames == [ch : {"stdout"}, data : StdoutChunks] \cup [ch : {"stderr"}, data : StderrChunks]
RECURSIVE FrameSeqs(_)
FrameSeqs(n) ==
    IF n = 0 THEN {<<>>}
    ELSE FrameSeqs(n - 1) \cup {Append(w, f) : w \in FrameSeqs(n - 1), f \in DataFrames}

\* everything the remote end sends: data, then the status, then the close
Wire(frames, payload) ==
    frames \o (IF payload = <<>> THEN <<>> ELSE <<[ch |-> "error", data |-> payload]>>)
           \o <<[ch |-> "close", data |-> <<>>]>>

ClosedChan == [open |-> FALSE, stdout |-> <<>>, stderr |-> <<>>, error |-> <<>>]
OpenChan   == [open |-> TRUE, stdout |-> <<>>, stderr |-> <<>>, error |-> <<>>]

\* r.update(): with k = 1 the transport takes the next frame off the wire
\* and buffers it on its channel, or learns that the channel is closed
update(c, w, k) ==
    IF k = 0 \/ ~c.open \/ w = <<>> THEN [chan |-> c, wire |-> w]
    ELSE LET f == Head(w)
         IN  [chan |-> CASE f.ch = "close"  -> [c EXCEPT !.open = FALSE]
                         [] f.ch = "stdout" -> [c EXCEPT !.stdout = @ \o f.data]
                         [] f.ch = "stderr" -> [c EXCEPT !.stderr = @ \o f.data]
                         [] OTHER           -> [c EXCEPT !.error = @ \o f.data],
              wire |-> Tail(w)]

\* a loop that passes stdout on and leaves stderr in the transport
drain_stdout_only(c, sk, stream) ==
    IF stream = "stdout" /\ c[stream] # <<>>
    THEN [chan |-> [c EXCEPT ![stream] = <<>>],
          sinks |-> [sk EXCEPT ![stream] = Append(@, c[stream])]]
    ELSE [chan |-> c, sinks |-> sk]

\* a loop that writes what it peeked and never reads it off the transport
drain_without_read(c, sk, stream) ==
    IF c[stream] # <<>>
    THEN [chan |-> c, sinks |-> [sk EXCEPT ![stream] = Append(@, c[stream])]]
    ELSE [chan |-> c, sinks |-> sk]

\* if r.peek_stdout(): stdout.write(r.read_stdout())  -- likewise stderr
drain(c, sk, stream) ==
    IF c[stream] # <<>>
    THEN [chan |-> [c EXCEPT ![stream] = <<>>],
          sinks |-> [sk EXCEPT ![stream] = Append(@, c[stream])]]
    ELSE [chan |-> c, sinks |-> sk]

\* the sinks run_command picks: collectors when preloaded, else the loggers
run_command_sinks(preload) ==
    IF preload
    THEN [stdout |-> <<>>, stderr |-> <<>>,
          stdout_kind |-> "ResponseDataCollector", stderr_kind |-> "ResponseDataCollector"]
    ELSE [stdout |-> <<>>, stderr |-> <<>>,
          stdout_kind |-> "Logger(info)", stderr_kind |-> "Logger(error)"]

\* the sinks of copy_file_from_pod: the file and the error log
copy_file_from_pod_sinks ==
    [stdout |-> <<>>, stderr |-> <<>>,
     stdout_kind |-> "FileWriter", stderr_kind |-> "Logger(error)"]

NoSinks == [stdout |-> <<>>, stderr |-> <<>>, stdout_kind |-> "none", stderr_kind |-> "none"]

\* the command copy_file_from_pod runs
copy_command(remote_path) == <<"/bin/sh", "-c", "cat " \o remote_path>>

NoMsg == [cmd |-> "", code |-> 0]

\* what _exec gives its caller
ExecOutcome(ret, exc, msg, err) == [ret |-> ret, exc |-> exc, msg |-> msg, err |-> err]

\* _exec_result with the status test ahead of the preloaded return
_exec_result_status_first(preload, command, e) ==
    LET err == safe_load(e)
    IN  IF ~err.none /\ err.status # "Success"
        THEN ExecOutcome("None", "Exception",
                         [cmd |-> JoinWith(" ", command), code |-> int(err.message)], err)
        ELSE IF preload THEN ExecOutcome("triple", "none", NoMsg, err)
        ELSE IF err.none THEN ExecOutcome("None", "TypeError", NoMsg, err)
        ELSE ExecOutcome("None", "none", NoMsg, err)

\* _exec_result that logs a failed status and forgets to raise
_exec_result_without_raise(preload, command, e) ==
    LET err == safe_load(e)
    IN  IF preload THEN ExecOutcome("triple", "none", NoMsg, err)
        ELSE IF err.none THEN ExecOutcome("None", "TypeError", NoMsg, err)
        ELSE ExecOutcome("None", "none", NoMsg, err)

\* the end of _exec once the loop is left: e is the error channel's payload
_exec_result(preload, command, e) ==
    LET err == safe_load(e)
    IN  IF preload THEN ExecOutcome("triple", "none", NoMsg, err)
        ELSE IF err.none THEN ExecOutcome("None", "TypeError", NoMsg, err)
        ELSE IF err.status # "Success"
             THEN ExecOutcome("None", "Exception",
                              [cmd |-> JoinWith(" ", command), code |-> int(err.message)], err)
             ELSE ExecOutcome("None", "none", NoMsg, err)

\* copy_file_from_pod_exit closing the file after the try block only, so
\* that an exception leaves it open
copy_file_from_pod_exit_without_finally(inner) ==
    [fd |-> IF inner.exc = "none" THEN "closed" ELSE "open", ret |-> "None",
     exc |-> inner.exc]

\* try / except: raise / finally: f.close() of copy_file_from_pod around
\* _exec: the file is closed, an exception goes on, nothing is returned
copy_file_from_pod_exit(inner) ==
    [fd |-> "closed", ret |-> "None", exc |-> inner.exc]

\* return self._exec(...) of run_command
run_command_exit(inner) ==
    [fd |-> fd, ret |-> inner.ret, exc |-> inner.exc]

\* what the caller of run_command / copy_file_from_pod is given, with the
\* outcome of _exec itself kept in exec_ret, exec_exc, msg and err
ExecResult(exit, inner) ==
    [ret |-> exit.ret, exc |-> exit.exc, exec_ret |-> inner.ret, exec_exc |-> inner.exc,
     msg |-> inner.msg, err |-> inner.err]

NoExecResult ==
    [ret |-> "None", exc |-> "none", exec_ret |-> "None", exec_exc |-> "none",
     msg |-> NoMsg, err |-> NoneDoc]

OptPreload == {EmptyKw, ("_preload_content" :> TRUE)}
OptExecNamespace == {EmptyKw, ("namespace" :> "ns1")}

\* the first lines of _exec: the keyword defaults, the namespace and the
\* stream() call, recorded as a library invocation
_exec_stream(pod_name, command, kw) ==
    LET kwargs0 == KwSetDefault(kw, "_preload_content", FALSE)
        kwargs1 == KwSet(kwargs0, "command", command)
        n       == KwGet(kwargs1, "namespace", ns)
        kwargs  == KwPop(kwargs1, "namespace")
    IN  [func |-> Func("connect_post", "pod_exec", "namespaced"),
         args |-> <<pod_name, ns>>, kw |-> kwargs]

ExecInit ==
    /\ ns \in DefaultNamespaces
    /\ call = NoCall
    /\ calls = <<>>
    /\ result = NoResult
    /\ WaitIdle
    /\ BuildIdle
    /\ ExecIdle
    /\ NewIdle

\* run_command(pod_name, command, **kw) up to the opened stream, or to the
\* exception stream() raised
RunCommand ==
    \E pod \in Names, command \in Commands, a \in OptExecNamespace, b \in OptPreload,
       frames \in FrameSeqs(MaxFrames), payload \in Payloads, opened \in BOOLEAN :
      LET kw      == a @@ b
          preload == KwGet(kw, "_preload_content", FALSE)
          inner   == ExecOutcome("None", "ApiException", NoMsg, NoneDoc)
      IN  /\ epc = "idle"
          /\ ecall' = [entry |-> "run_command", pod |-> pod, command |-> command,
                       kw |-> kw, preload |-> preload, payload |-> payload,
                       frames |-> IF opened THEN frames ELSE <<>>]
          /\ calls' = <<_exec_stream(pod, command, kw)>>
          /\ sinks' = run_command_sinks(preload)
          /\ IF opened
             THEN /\ epc' = "loop"
                  /\ wire' = Wire(frames, payload)
                  /\ chan' = OpenChan
                  /\ eresult' = NoExecResult
             ELSE /\ epc' = "aborted"
                  /\ wire' = <<>>
                  /\ chan' = ClosedChan
                  /\ eresult' = ExecResult(run_command_exit(inner), inner)
          /\ UNCHANGED <<newVars, waitVars, buildVars, ns, call, result, fd>>

\* copy_file_from_pod(name, remote_path, local_path, **kw) up to the opened
\* stream: the file is opened first, outside the try
CopyFileFromPod ==
    \E pod \in Names, path \in RemotePaths, a \in OptExecNamespace, b \in OptPreload,
       frames \in FrameSeqs(MaxFrames), payload \in Payloads, opened \in BOOLEAN :
      LET kw      == a @@ b
          command == copy_command(path)
          preload == KwGet(kw, "_preload_content", FALSE)
          inner   == ExecOutcome("None", "ApiException", NoMsg, NoneDoc)
          exit    == copy_file_from_pod_exit(inner)
      IN  /\ epc = "idle"
          /\ ecall' = [entry |-> "copy_file_from_pod", pod |-> pod, command |-> command,
                       kw |-> kw, preload |-> preload, payload |-> payload,
                       frames |-> IF opened THEN frames ELSE <<>>]
          /\ calls' = <<_exec_stream(pod, command, kw)>>
          /\ sinks' = copy_file_from_pod_sinks
          /\ IF opened
             THEN /\ epc' = "loop"
                  /\ wire' = Wire(frames, payload)
                  /\ chan' = OpenChan
                  /\ fd' = "open"
                  /\ eresult' = NoExecResult
             ELSE /\ epc' = "aborted"
                  /\ wire' = <<>>
                  /\ chan' = ClosedChan
                  /\ fd' = exit.fd
                  /\ eresult' = ExecResult(exit, inner)
          /\ UNCHANGED <<newVars, waitVars, buildVars, ns, call, result>>

\* FileWriter(local_path) raises: the file is never opened, _exec never runs
CopyOpenFails ==
    \E pod \in Names, path \in RemotePaths, a \in OptExecNamespace :
      /\ epc = "idle"
      /\ ecall' = [entry |-> "copy_file_from_pod", pod |-> pod,
                   command |-> copy_command(path), kw |-> a, preload |-> FALSE,
                   payload |-> <<>>, frames |-> <<>>]
      /\ epc' = "aborted"
      /\ eresult' = [NoExecResult EXCEPT !.exc = "OSError"]
      /\ UNCHANGED <<newVars, waitVars, buildVars,
                      ns, call, calls, result, wire, chan, sinks, fd>>

\* the exit of the entry point around the outcome `inner` of _exec
Exit(inner) ==
    IF ecall.entry = "copy_file_from_pod" THEN copy_file_from_pod_exit(inner)
    ELSE run_command_exit(inner)

\* one turn of the while loop: r.update(timeout=1), then stdout, then stderr.
\* The update may take a frame (k1); a peek may take one more (k2, k3).
Poll ==
    \E k1 \in {0, 1}, k2 \in {0, 1}, k3 \in {0, 1} :
      LET u1 == update(chan, wire, k1)
          u2 == update(u1.chan, u1.wire, k2)
          d1 == drain(u2.chan, sinks, "stdout")
          u3 == update(d1.chan, u2.wire, k3)
          d2 == drain(u3.chan, d1.sinks, "stderr")
      IN  /\ epc = "loop"
          /\ chan.open
          /\ k1 + k2 + k3 > 0
          /\ chan' = d2.chan
          /\ wire' = u3.wire
          /\ sinks' = d2.sinks
          /\ UNCHANGED <<newVars, waitVars, buildVars,
                          ns, call, calls, result, epc, ecall, fd, eresult>>

\* the transport raises inside the loop
TransportError ==
    LET inner == ExecOutcome("None", "TransportError", NoMsg, NoneDoc)
        exit  == Exit(inner)
    IN  /\ epc = "loop"
        /\ chan.open
        /\ epc' = "aborted"
        /\ fd' = exit.fd
        /\ eresult' = ExecResult(exit, inner)
        /\ UNCHANGED <<newVars, waitVars, buildVars,
                        ns, call, calls, result, ecall, wire, chan, sinks>>

\* the loop is left: read the error channel, close, return or raise
Finish ==
    LET inner == _exec_result(ecall.preload, ecall.command, chan.error)
        exit  == Exit(inner)
    IN  /\ epc = "loop"
        /\ ~chan.open
        /\ epc' = "done"
        /\ chan' = [chan EXCEPT !.error = <<>>]
        /\ fd' = exit.fd
        /\ eresult' = ExecResult(exit, inner)
        /\ UNCHANGED <<newVars, waitVars, buildVars,
                        ns, call, calls, result, ecall, wire, sinks>>

\* the caller has its answer; the executor is ready for the next call
ExecReturn ==
    /\ epc \in {"done", "aborted"}
    /\ epc' = "idle"
    /\ ecall' = [entry |-> "none", command |-> <<>>, kw |-> EmptyKw]
    /\ wire' = <<>>
    /\ chan' = ClosedChan
    /\ sinks' = NoSinks
    /\ fd' = "none"
    /\ eresult' = NoExecResult
    /\ calls' = <<>>
    /\ UNCHANGED <<newVars, waitVars, buildVars, ns, call, result>>

ExecNext ==
    RunCommand \/ CopyFileFromPod \/ CopyOpenFails \/ Poll \/ TransportError \/ Finish
        \/ ExecReturn

SpecExec == ExecInit /\ [][ExecNext]_vars

-----------------------------------------------------------------------------
(* Waiting for pods and scaling down.  wait_pods is followed pass by pass  *)
(* of its loop: every pass lists the pods, and the cluster answers each    *)
(* listing freely.  scale_down_all is followed request by request.         *)

\* a container status, or None in its place
ContainerStatus(ready) == [none |-> FALSE, ready |-> ready]
NoneStatus             == [none |-> TRUE, ready |-> FALSE]

\* pod.status.container_statuses: None or a list
NoneStatuses      == [none |-> TRUE, list |-> <<>>]
Statuses(items)   == [none |-> FALSE, list |-> items]

\* a V1Pod as far as is_pod_ready reads it; deletion_timestamp "" is None
V1Pod(deletion_timestamp, container_statuses) ==
    [metadata |-> [deletion_timestamp |-> deletion_timestamp],
     status   |-> [container_statuses |-> container_statuses]]

\* is_pod_ready with the deletion timestamp left out of the test
is_pod_ready_without_deletion_timestamp(pod) ==
    LET statuses == IF pod.status.container_statuses.none THEN <<>>
                    ELSE pod.status.container_statuses.list
    IN  \A i \in 1..Len(statuses) :
            IF statuses[i].none THEN FALSE ELSE statuses[i].ready

\* is_pod_ready(pod)
is_pod_ready(pod) ==
    LET statuses == IF pod.status.container_statuses.none THEN <<>>
                    ELSE pod.status.container_statuses.list
    IN  /\ pod.metadata.deletion_timestamp = ""
        /\ \A i \in 1..Len(statuses) :
              IF statuses[i].none THEN FALSE ELSE statuses[i].ready

\* the defaults of wait_pods(label_selector, msg, delay, timeout, start_delay)
wait_pods_delay       == 3
wait_pods_timeout     == 120
wait_pods_start_delay == 3

\* wait_pods up to its loop: time.sleep(start_delay) is over.  given keeps
\* the timeout argument, timeout is the local the loop counts down, slept
\* the seconds handed to time.sleep so far, lists the listings made.
wait_pods_enter(label_selector, delay, timeout, start_delay) ==
    [pc |-> "poll", exc |-> "none", label_selector |-> label_selector, delay |-> delay,
     timeout |-> timeout, start_delay |-> start_delay, given |-> timeout,
     slept |-> start_delay, lists |-> 0, items |-> <<>>, request |-> <<>>]

\* the timeout test of the loop
wait_pods_timeout_reached(timeout) == timeout <= 0

\* one pass of `while 1` in wait_pods: pod_list answers with status answer
\* and, on 200, the pods items
wait_pods_pass(w, answer, items) ==
    LET obj == list("pod", TRUE,
                    ("field_selector" :> "status.phase!=Succeeded")
                        @@ ("label_selector" :> w.label_selector), answer)
        w1  == [w EXCEPT !.lists = @ + 1, !.request = obj.calls,
                         !.items = IF obj.exc = "none" THEN items ELSE <<>>]
    IN  IF obj.exc # "none" THEN [w1 EXCEPT !.pc = "raised", !.exc = obj.exc]
        ELSE IF items = <<>> THEN [w1 EXCEPT !.pc = "returned"]
        ELSE IF \A i \in 1..Len(items) : is_pod_ready(items[i])
             THEN [w1 EXCEPT !.pc = "returned"]
        ELSE IF wait_pods_timeout_reached(w.timeout)
             THEN [w1 EXCEPT !.pc = "raised", !.exc = "TimeoutError"]
        ELSE [w1 EXCEPT !.timeout = @ - w.delay, !.slept = @ + w.delay]

\* spec.replicas of a listed workload: None or a number
NoneReplicas == [none |-> TRUE, n |-> 0]
Replicas(n)  == [none |-> FALSE, n |-> n]

\* `if item.spec.replicas:`
replicas_truthy(r) == ~r.none /\ r.n # 0

\* scale_down_all up to its first loop: deployment_list() answered
scale_down_all_deployments(answer, items) ==
    LET deployments == list("deployment", TRUE, EmptyKw, answer)
    IN  IF deployments.exc # "none"
        THEN [out |-> deployments,
              sd  |-> [NoScaleDown EXCEPT !.pc = "raised", !.exc = deployments.exc]]
        ELSE [out |-> deployments,
              sd  |-> [NoScaleDown EXCEPT !.pc = "deployments", !.todo = items,
                                          !.deployments = items,
                                          !.listed = <<"deployment">>]]

\* the first loop is over: stateful_set_list() answered
scale_down_all_stateful_sets(sd, answer, items) ==
    LET stateful_sets == list("stateful_set", TRUE, EmptyKw, answer)
    IN  IF stateful_sets.exc # "none"
        THEN [out |-> stateful_sets,
              sd  |-> [sd EXCEPT !.pc = "raised", !.exc = stateful_sets.exc]]
        ELSE [out |-> stateful_sets,
              sd  |-> [sd EXCEPT !.pc = "stateful_sets", !.todo = items,
                                 !.stateful_sets = items,
                                 !.listed = Append(@, "stateful_set")]]

\* one pass of either loop of scale_down_all over the item at the head of
\* todo; the PATCH, when one is made, is answered with status answer
scale_down_all_item(sd, answer, labels) ==
    LET item == Head(sd.todo)
        r    == IF sd.pc = "deployments"
                THEN scale_deployment(item.metadata.name, 0, FALSE, EmptyKw, answer, labels)
                ELSE scale_stateful_set(item.metadata.name, 0, FALSE, EmptyKw, answer, labels)
    IN  IF ~replicas_truthy(item.spec.replicas)
        THEN [calls |-> <<>>, wait |-> NoWait, sd |-> [sd EXCEPT !.todo = Tail(@)]]
        ELSE IF r.out.exc # "none"
        THEN [calls |-> r.out.calls, wait |-> r.wait,
              sd |-> [sd EXCEPT !.pc = "raised", !.exc = r.out.exc]]
        ELSE [calls |-> r.out.calls, wait |-> r.wait, sd |-> [sd EXCEPT !.todo = Tail(@)]]

MaxTimeout    == 3
MaxDelay      == 2
MaxStartDelay == 1

Selectors == {"app=web"}

Deleting == "2024-05-01T00:00:00Z"

ReadyPod    == V1Pod("", Statuses(<<ContainerStatus(TRUE)>>))
NotReadyPod == V1Pod("", Statuses(<<ContainerStatus(FALSE)>>))

\* the pods a cluster answers a listing with: none, one pod (without
\* container statuses, with all or some containers ready, with None for a
\* status, being deleted), two pods
PodLists ==
    {<<>>,
     <<V1Pod("", NoneStatuses)>>,
     <<V1Pod("", Statuses(<<>>))>>,
     <<ReadyPod>>,
     <<NotReadyPod>>,
     <<V1Pod("", Statuses(<<NoneStatus>>))>>,
     <<V1Pod("", Statuses(<<ContainerStatus(TRUE), ContainerStatus(FALSE)>>))>>,
     <<V1Pod(Deleting, Statuses(<<ContainerStatus(TRUE)>>))>>,
     <<V1Pod(Deleting, NoneStatuses)>>,
     <<ReadyPod, NotReadyPod>>,
     <<ReadyPod, V1Pod("", Statuses(<<ContainerStatus(TRUE), ContainerStatus(TRUE)>>))>>}

\* the answers to a listing: the pods, or an error of the API
PodListAnswers ==
    {[answer |-> 200, items |-> l] : l \in PodLists} \cup {[answer |-> 500, items |-> <<>>]}

WorkloadNames == {"web", "db"}

ReplicaValues == {NoneReplicas} \cup {Replicas(n) : n \in 0..MaxReplicas}

Workloads ==
    {[metadata |-> [name |-> n], spec |-> [replicas |-> r]] :
        n \in WorkloadNames, r \in ReplicaValues}

\* a listing names every workload once
WorkloadLists ==
    {<<>>} \cup {<<i>> : i \in Workloads}
        \cup {p \in Workloads \X Workloads : p[1].metadata.name # p[2].metadata.name}

WaitInit ==
    /\ ns \in DefaultNamespaces
    /\ call = NoCall
    /\ calls = <<>>
    /\ result = NoResult
    /\ WaitIdle
    /\ ExecIdle
    /\ BuildIdle
    /\ NewIdle

\* wait_pods(label_selector, delay=, timeout=, start_delay=) called directly
WaitPods ==
    \E label_selector \in Selectors, delay \in 1..MaxDelay, timeout \in 0..MaxTimeout,
       start_delay \in 0..MaxStartDelay :
      /\ Ready
      /\ call' = [op |-> "wait_pods", kind |-> "pod", name |-> "", namespaced |-> TRUE,
                  kw |-> EmptyKw, answer |-> 0]
      /\ wpods' = wait_pods_enter(label_selector, delay, timeout, start_delay)
      /\ UNCHANGED <<calls, result, sdall>>
      /\ UNCHANGED <<newVars, ns, execVars, buildVars>>

\* scale_deployment / scale_stateful_set(name, replicas, wait, **kw) up to
\* the loop of wait_pods, or to its end when no wait is started
Scale ==
    \E kind \in {"deployment", "stateful_set"}, name \in Names, replicas \in 0..MaxReplicas,
       wait \in BOOLEAN, a \in OptNamespace, answer \in HttpAnswers, labels \in LabelMaps :
      LET r == IF kind = "deployment"
               THEN scale_deployment(name, replicas, wait, a, answer, labels)
               ELSE scale_stateful_set(name, replicas, wait, a, answer, labels)
      IN  /\ Ready
          /\ call' = [op |-> "scale", kind |-> kind, name |-> name,
                      namespaced |-> TRUE, kw |-> a, answer |-> answer,
                      replicas |-> replicas, wait |-> wait, labels |-> labels]
          /\ calls' = r.out.calls
          /\ result' = Result(r.out, r.wait)
          /\ wpods' = IF r.wait.started
                      THEN wait_pods_enter(r.wait.selector, wait_pods_delay,
                                           wait_pods_timeout, wait_pods_start_delay)
                      ELSE NoWaitPods
          /\ UNCHANGED sdall
          /\ UNCHANGED <<newVars, ns, execVars, buildVars>>

\* one pass of the loop of wait_pods; an exception leaves through the
\* caller, a return lets _scale return resp
ListPods ==
    \E a \in PodListAnswers :
      LET w == wait_pods_pass(wpods, a.answer, a.items)
      IN  /\ wpods.pc = "poll"
          /\ wpods' = w
          /\ result' = IF w.pc = "raised"
                       THEN [result EXCEPT !.ret = "None", !.exc = w.exc]
                       ELSE result
          /\ UNCHANGED <<call, calls, sdall>>
          /\ UNCHANGED <<newVars, ns, execVars, buildVars>>

\* scale_down_all() up to the answer to deployment_list()
ScaleDownAll ==
    \E answer \in {200, 500}, items \in WorkloadLists :
      LET r == scale_down_all_deployments(answer, items)
      IN  /\ Ready
          /\ call' = [op |-> "scale_down_all", kind |-> "none", name |-> "",
                      namespaced |-> TRUE, kw |-> EmptyKw, answer |-> 0]
          /\ calls' = r.out.calls
          /\ sdall' = r.sd
          /\ result' = [NoResult EXCEPT !.exc = r.sd.exc]
          /\ UNCHANGED wpods
          /\ UNCHANGED <<newVars, ns, execVars, buildVars>>

\* the next item of the running loop
ScaleDownItem ==
    \E answer \in HttpAnswers, labels \in LabelMaps :
      LET r == scale_down_all_item(sdall, answer, labels)
      IN  /\ sdall.pc \in {"deployments", "stateful_sets"}
          /\ sdall.todo # <<>>
          /\ calls' = calls \o r.calls
          /\ sdall' = r.sd
          /\ result' = [result EXCEPT !.exc = r.sd.exc, !.wait = r.wait]
          /\ UNCHANGED <<call, wpods>>
          /\ UNCHANGED <<newVars, ns, execVars, buildVars>>

\* the loop over the deployments is over
ScaleDownStatefulSets ==
    \E answer \in {200, 500}, items \in WorkloadLists :
      LET r == scale_down_all_stateful_sets(sdall, answer, items)
      IN  /\ sdall.pc = "deployments"
          /\ sdall.todo = <<>>
          /\ calls' = calls \o r.out.calls
          /\ sdall' = r.sd
          /\ result' = [result EXCEPT !.exc = r.sd.exc]
          /\ UNCHANGED <<call, wpods>>
          /\ UNCHANGED <<newVars, ns, execVars, buildVars>>

\* the loop over the stateful sets is over: scale_down_all returns
ScaleDownEnd ==
    /\ sdall.pc = "stateful_sets"
    /\ sdall.todo = <<>>
    /\ sdall' = [sdall EXCEPT !.pc = "returned"]
    /\ UNCHANGED <<call, calls, result, wpods>>
    /\ UNCHANGED <<newVars, ns, execVars, buildVars>>

\* the running call is over: it returned or raised
Over ==
    /\ ~Ready
    /\ wpods.pc # "poll"
    /\ sdall.pc \notin {"deployments", "stateful_sets"}

\* the caller has its answer; the facade is ready for the next call
WaitReturn ==
    /\ Over
    /\ call' = NoCall
    /\ calls' = <<>>
    /\ result' = NoResult
    /\ wpods' = NoWaitPods
    /\ sdall' = NoScaleDown
    /\ UNCHANGED <<newVars, ns, execVars, buildVars>>

WaitNext ==
    WaitPods \/ Scale \/ ListPods \/ ScaleDownAll \/ ScaleDownItem
        \/ ScaleDownStatefulSets \/ ScaleDownEnd \/ WaitReturn

SpecWait == WaitInit /\ [][WaitNext]_vars

-----------------------------------------------------------------------------
(* The manifest builders (src/src/kube/manifests.py).  A builder is a      *)
(* record of its attributes; bld is the one builder under study, emitted   *)
(* the manifests it has handed out.  deepcopy gives a manifest its own     *)
(* value; a part that manifest assigns from an attribute of the builder is *)
(* the very object the builder holds (alias), so its content is read       *)
(* through the builder.  The pod template a workload builder composes in   *)
(* is left out.                                                            *)

\* None or a dict, None or a list
NoneDict   == [none |-> TRUE, dict |-> <<>>]
DictOf(d)    == [none |-> FALSE, dict |-> d]
NoneList   == [none |-> TRUE, list |-> <<>>]
ListOf(l)    == [none |-> FALSE, list |-> l]

\* truth value of a dict or list attribute: None and the empty one are false
Truthy(x) == ~x.none /\ (IF "dict" \in DOMAIN x THEN DOMAIN x.dict # {} ELSE x.list # <<>>)

\* argument values: None, a str, an int, an object reference
NoneArg == [type |-> "None"]
StrArg(s)  == [type |-> "str", s |-> s]
IntArg(n)  == [type |-> "int", n |-> n]
TypedLocalObjectReference(kind, name) == [type |-> "ref", kind |-> kind, name |-> name]

\* `not x` of an argument
Falsy(x) ==
    \/ x.type = "None"
    \/ x.type = "str" /\ x.s = ""
    \/ x.type = "int" /\ x.n = 0

\* ObjectMetadata.__init__(name): the V1ObjectMeta the builder keeps
ObjectMetadata(name) == [name |-> name, labels |-> NoneDict]

\* dict_str(**kwargs): a dict of the keyword arguments as strings
dict_str(kwargs) == DictOf(kwargs)

\* ObjectMetadata.set_labels(**kwargs)
ObjectMetadata_set_labels(b, kwargs) ==
    [exc |-> "none", b |-> [b EXCEPT !._metadata.labels = dict_str(kwargs)]]

\* client.V1LabelSelector(); match_expression is the attribute that
\* add_selector_match_expressions creates on the object
V1LabelSelector ==
    [match_labels |-> NoneDict, match_expressions |-> NoneList,
     match_expression |-> [set |-> FALSE, list |-> <<>>]]

V1LabelSelectorRequirement(key, operator, values) ==
    [key |-> key, operator |-> operator, values |-> values]

\* a strategy attribute that is None
NoneStrategy == [none |-> TRUE]

\* client.V1DeploymentStrategy with its V1RollingUpdateDeployment
V1DeploymentStrategy(typ, max_surge, max_unavailable) ==
    [none |-> FALSE, type |-> typ,
     rolling_update |-> [max_surge |-> max_surge, max_unavailable |-> max_unavailable]]

\* client.V1StatefulSetUpdateStrategy with its V1RollingUpdateStatefulSetStrategy
V1StatefulSetUpdateStrategy(typ, max_unavailable, partition) ==
    [none |-> FALSE, type |-> typ,
     rolling_update |-> [max_unavailable |-> max_unavailable, partition |-> partition]]

\* Job.__init__
Job(name) ==
    [kind |-> "Job", _metadata |-> ObjectMetadata(name),
     _job |-> [api_version |-> "batch/v1", kind |-> "Job", metadata |-> "None"]]

\* CronJob.__init__: the client object gets a V1ObjectMeta of its own
CronJob(name) ==
    [kind |-> "CronJob", _metadata |-> ObjectMetadata(name),
     _cj |-> [api_version |-> "batch/v1", kind |-> "CronJob",
              metadata |-> [name |-> name, labels |-> NoneDict],
              spec |-> [schedule |-> "0 0 * * *"]]]

\* Pod.__init__
Pod(name) ==
    [kind |-> "Pod", _metadata |-> ObjectMetadata(name),
     _pod |-> [api_version |-> "v1", kind |-> "Pod", metadata |-> "None"]]

\* Deployment.__init__: V1Deployment is built without api_version and kind
Deployment(name) ==
    [kind |-> "Deployment", _metadata |-> ObjectMetadata(name),
     _deploy |-> [api_version |-> "None", kind |-> "None", metadata |-> "None",
                  spec |-> [replicas |-> NoneReplicas, selector |-> V1LabelSelector,
                            strategy |-> NoneStrategy]]]

StatefulSet(name) ==
    [kind |-> "StatefulSet", _metadata |-> ObjectMetadata(name),
     _sts |-> [api_version |-> "v1", kind |-> "StatefulSet", metadata |-> "None",
               spec |-> [service_name |-> "", replicas |-> NoneReplicas,
                         selector |-> V1LabelSelector,
                         update_strategy |-> NoneStrategy,
                         pod_management_policy |-> "None"]]]

\* V1Primitive.__init__: the data the Secret and ConfigMap builders collect
V1Primitive == [_string_data |-> <<>>, _binary_data |-> <<>>, _immutable |-> "None"]

Secret(name, typ) ==
    [kind |-> "Secret", _metadata |-> ObjectMetadata(name),
     _string_data |-> V1Primitive._string_data, _binary_data |-> V1Primitive._binary_data,
     _immutable |-> V1Primitive._immutable,
     _secret |-> [api_version |-> "v1", kind |-> "Secret", type |-> typ,
                  metadata |-> "None"]]

SecretImagePull(name) ==
    [Secret(name, "kubernetes.io/dockerconfigjson") EXCEPT !.kind = "SecretImagePull"]
        @@ [_registries |-> <<>>]

ConfigMap(name) ==
    [kind |-> "ConfigMap", _metadata |-> ObjectMetadata(name),
     _string_data |-> V1Primitive._string_data, _binary_data |-> V1Primitive._binary_data,
     _immutable |-> V1Primitive._immutable,
     _cm |-> [api_version |-> "v1", kind |-> "ConfigMap", metadata |-> "None"]]

Ingress(name) ==
    [kind |-> "Ingress", _metadata |-> ObjectMetadata(name),
     _ing |-> [api_version |-> "networking.k8s.io/v1", kind |-> "Ingress",
               metadata |-> "None",
               spec |-> [rules |-> NoneList, tls |-> NoneList,
                         default_backend |-> NoneArg, ingress_class_name |-> "None"]]]

\* the client object a builder keeps
ClientObject(b) ==
    CASE b.kind = "Deployment"  -> b._deploy
      [] b.kind = "StatefulSet" -> b._sts
      [] b.kind = "Job"         -> b._job
      [] b.kind = "CronJob"     -> b._cj
      [] b.kind = "Pod"         -> b._pod
      [] b.kind \in {"Secret", "SecretImagePull"} -> b._secret
      [] b.kind = "ConfigMap"   -> b._cm
      [] b.kind = "Ingress"     -> b._ing

\* a part of a manifest: the builder's own object or a value of its own
Alias    == [alias |-> TRUE, val |-> NoneDict]
Own(val) == [alias |-> FALSE, val |-> val]

\* what a call on a builder gives: the exception raised, the builder after
\* it and, for manifest, the object returned
Done(b)        == [exc |-> "none", b |-> b]
Raised(exc, b) == [exc |-> exc, b |-> b]

\* Deployment.manifest
Deployment_manifest(b) ==
    LET o  == b._deploy
        o1 == IF o.spec.selector.match_expressions.none /\ o.spec.selector.match_labels.none
              THEN [o EXCEPT !.spec.selector = NoneArg]
              ELSE o
    IN  [exc |-> "none", b |-> b,
         o |-> [body |-> Own(o1), metadata |-> Alias,
                string_data |-> Own(NoneDict), data |-> Own(NoneDict)]]

\* Deployment / StatefulSet.set_labels: the client object has no metadata
Workload_set_labels(b, kwargs) == Raised("AttributeError", b)

\* Job.manifest
Job_manifest(b) ==
    [exc |-> "none", b |-> b,
     o |-> [body |-> Own(b._job), metadata |-> Alias,
            string_data |-> Own(NoneDict), data |-> Own(NoneDict)]]

\* CronJob.manifest: the copy keeps the metadata of the client object
CronJob_manifest(b) ==
    [exc |-> "none", b |-> b,
     o |-> [body |-> Own(b._cj), metadata |-> Own(b._cj.metadata),
            string_data |-> Own(NoneDict), data |-> Own(NoneDict)]]

\* Pod.manifest
Pod_manifest(b) ==
    [exc |-> "none", b |-> b,
     o |-> [body |-> Own(b._pod), metadata |-> Alias,
            string_data |-> Own(NoneDict), data |-> Own(NoneDict)]]

\* Deployment / StatefulSet.set_replicas
Workload_set_replicas(b, n) ==
    IF b.kind = "Deployment"
    THEN Done([b EXCEPT !._deploy.spec.replicas = Replicas(n)])
    ELSE Done([b EXCEPT !._sts.spec.replicas = Replicas(n)])

DeploymentStrategyAllow == {"RollingUpdate", "Recreate"}

\* Deployment.set_strategy
Deployment_set_strategy(b, typ, max_surge, max_unavailable) ==
    IF typ \notin DeploymentStrategyAllow THEN Raised("ValueError", b)
    ELSE Done([b EXCEPT !._deploy.spec.strategy =
                  V1DeploymentStrategy(typ, max_surge, max_unavailable)])

\* StatefulSet.set_strategy: the type is stored as given
StatefulSet_set_strategy(b, typ, max_unavailable, partition) ==
    Done([b EXCEPT !._sts.spec.update_strategy =
             V1StatefulSetUpdateStrategy(typ, max_unavailable, partition)])

PodManagementPolicyAllow == {"OrderedReady", "Parallel"}

\* StatefulSet.set_pod_management_policy
StatefulSet_set_pod_management_policy(b, policy) ==
    IF policy \notin PodManagementPolicyAllow THEN Raised("ValueError", b)
    ELSE Done([b EXCEPT !._sts.spec.pod_management_policy = policy])

\* Deployment / StatefulSet.set_selector_match_labels
Workload_set_selector_match_labels(b, kwargs) ==
    IF b.kind = "Deployment"
    THEN Done([b EXCEPT !._deploy.spec.selector.match_labels = dict_str(kwargs)])
    ELSE Done([b EXCEPT !._sts.spec.selector.match_labels = dict_str(kwargs)])

MatchExprAllow == {"In", "NotIn", "Exists", "DoesNotExist"}

\* the selector after add_selector_match_expressions, which tests
\* match_expressions and writes match_expression
selector_add_match_expressions(selector, key, operator, values) ==
    LET e == V1LabelSelectorRequirement(key, operator, values)
    IN  IF operator \notin MatchExprAllow THEN [exc |-> "ValueError", selector |-> selector]
        ELSE IF Truthy(selector.match_expressions)
        THEN IF \E i \in 1..Len(selector.match_expressions.list) :
                    /\ selector.match_expressions.list[i].key = key
                    /\ selector.match_expressions.list[i].operator = operator
             THEN [exc |-> "none", selector |-> selector]
             ELSE IF ~selector.match_expression.set
             THEN [exc |-> "AttributeError", selector |-> selector]
             ELSE [exc |-> "none",
                   selector |-> [selector EXCEPT !.match_expression.list = Append(@, e)]]
        ELSE [exc |-> "none",
              selector |-> [selector EXCEPT
                                !.match_expression = [set |-> TRUE, list |-> <<e>>]]]

\* Deployment / StatefulSet.add_selector_match_expressions
Workload_add_selector_match_expressions(b, key, operator, values) ==
    IF b.kind = "Deployment"
    THEN LET r == selector_add_match_expressions(b._deploy.spec.selector, key, operator,
                                                 values)
         IN  [exc |-> r.exc, b |-> [b EXCEPT !._deploy.spec.selector = r.selector]]
    ELSE LET r == selector_add_match_expressions(b._sts.spec.selector, key, operator, values)
         IN  [exc |-> r.exc, b |-> [b EXCEPT !._sts.spec.selector = r.selector]]

\* StatefulSet.set_service_name
StatefulSet_set_service_name(b, name) == Done([b EXCEPT !._sts.spec.service_name = name])

\* StatefulSet.manifest
StatefulSet_manifest(b) ==
    LET o == b._sts
    IN  IF o.spec.service_name = ""
        THEN [exc |-> "ValueError", b |-> b, o |-> <<>>]
        ELSE IF o.spec.selector.match_expressions.none /\ o.spec.selector.match_labels.none
        THEN [exc |-> "ValueError", b |-> b, o |-> <<>>]
        ELSE [exc |-> "none", b |-> b,
              o |-> [body |-> Own(o), metadata |-> Alias,
                     string_data |-> Own(NoneDict), data |-> Own(NoneDict)]]

\* V1Primitive.set(key, value) for a str value
V1Primitive_set(b, key, value) == Done([b EXCEPT !._string_data = (key :> value) @@ @])

\* Secret.to_base64 and json.dumps: the encoded text is kept as a term
to_base64(v)  == <<"base64", v>>
json_dumps(x) == <<"json", x>>

\* Secret.manifest
Secret_manifest(b) ==
    [exc |-> "none", b |-> b,
     o |-> [body |-> Own(b._secret @@ [immutable |-> b._immutable]),
            metadata |-> Alias,
            string_data |-> IF DOMAIN b._string_data # {} THEN Alias ELSE Own(NoneDict),
            data |-> IF DOMAIN b._binary_data # {} THEN Alias ELSE Own(NoneDict)]]

\* SecretImagePull.add_registry
SecretImagePull_add_registry(b, registry, username, password, email) ==
    IF registry \in DOMAIN b._registries THEN Done(b)
    ELSE Done([b EXCEPT !._registries =
                  (registry :> [username |-> username, password |-> password,
                                email |-> email,
                                auth |-> to_base64(username \o ":" \o password)]) @@ @])

\* SecretImagePull.manifest
SecretImagePull_manifest(b) ==
    LET auth == json_dumps([auths |-> b._registries])
    IN  Secret_manifest(V1Primitive_set(b, ".dockerconfigjson", to_base64(auth)).b)

\* ConfigMap.manifest
ConfigMap_manifest(b) ==
    [exc |-> "none", b |-> b,
     o |-> [body |-> Own(b._cm @@ [immutable |-> b._immutable]),
            metadata |-> Alias,
            string_data |-> IF DOMAIN b._string_data # {} THEN Alias ELSE Own(NoneDict),
            data |-> IF DOMAIN b._binary_data # {} THEN Alias ELSE Own(NoneDict)]]

\* Ingress.manifest
Ingress_manifest(b) ==
    [exc |-> "none", b |-> b,
     o |-> [body |-> Own(b._ing), metadata |-> Alias,
            string_data |-> Own(NoneDict), data |-> Own(NoneDict)]]

V1IngressBackend == [resource |-> NoneArg, service |-> NoneArg]

\* Ingress._ingress_backend(service_name, service_port, ref)
_ingress_backend(service_name, service_port, ref) ==
    IF Falsy(service_name) /\ Falsy(ref)
    THEN [exc |-> "ValueError", backend |-> V1IngressBackend]
    ELSE IF ~Falsy(service_name) /\ Falsy(service_port)
    THEN [exc |-> "ValueError", backend |-> V1IngressBackend]
    ELSE IF ~Falsy(ref)
    THEN [exc |-> "none", backend |-> [V1IngressBackend EXCEPT !.resource = ref]]
    ELSE [exc |-> "none",
          backend |-> [V1IngressBackend EXCEPT
                          !.service = [type |-> "service", name |-> service_name,
                                       port |-> IF service_port.type = "int"
                                                THEN [number |-> service_port,
                                                      name |-> NoneArg]
                                                ELSE [number |-> NoneArg,
                                                      name |-> service_port]]]]

\* Ingress.set_default_backend
Ingress_set_default_backend(b, service_name, service_port, ref) ==
    LET r == _ingress_backend(service_name, service_port, ref)
    IN  IF r.exc # "none" THEN Raised(r.exc, b)
        ELSE Done([b EXCEPT !._ing.spec.default_backend = r.backend])

\* the rules after the loop of add_rule met no rule of the host
add_rule_new_host(rules, host, backend_path) ==
    Append(rules, [host |-> host, http |-> [paths |-> <<backend_path>>]])

\* add_rule_known_host with a path that is already there put in anew
add_rule_known_host_replacing_path(rules, i, backend_path) ==
    IF \E k \in 1..Len(rules[i].http.paths) : rules[i].http.paths[k].path = backend_path.path
    THEN [rules EXCEPT ![i].http.paths =
             [k \in 1..Len(@) |-> IF @[k].path = backend_path.path THEN backend_path
                                  ELSE @[k]]]
    ELSE [rules EXCEPT ![i].http.paths = Append(@, backend_path)]

\* the rules after the loop of add_rule met rule i of the host
add_rule_known_host(rules, i, backend_path) ==
    IF \E k \in 1..Len(rules[i].http.paths) : rules[i].http.paths[k].path = backend_path.path
    THEN rules
    ELSE [rules EXCEPT ![i].http.paths = Append(@, backend_path)]

\* Ingress.add_rule
Ingress_add_rule(b, host, path, path_type, service_name, service_port, ref) ==
    LET r     == _ingress_backend(service_name, service_port, ref)
        backend_path == [backend |-> r.backend, path |-> path, path_type |-> path_type]
        rules == IF b._ing.spec.rules.none THEN <<>> ELSE b._ing.spec.rules.list
        known == {i \in 1..Len(rules) : rules[i].host = host}
        first == CHOOSE i \in known : \A j \in known : i <= j
    IN  IF r.exc # "none" THEN Raised(r.exc, b)
        ELSE IF known # {}
        THEN Done([b EXCEPT !._ing.spec.rules =
                                ListOf(add_rule_known_host(rules, first, backend_path))])
        ELSE Done([b EXCEPT !._ing.spec.rules =
                                ListOf(add_rule_new_host(rules, host, backend_path))])

\* the test of add_tls for an entry of the same secret
add_tls_known(tls, secret_name) ==
    \E i \in 1..Len(tls) : tls[i].secret_name = secret_name

\* Ingress.add_tls(*hosts, secret_name=)
Ingress_add_tls(b, hosts, secret_name) ==
    LET tls == IF Truthy(b._ing.spec.tls) THEN b._ing.spec.tls.list ELSE <<>>
    IN  IF Truthy(b._ing.spec.tls) /\ add_tls_known(tls, secret_name)
        THEN Done(b)
        ELSE Done([b EXCEPT !._ing.spec.tls =
                                ListOf(Append(tls, [hosts |-> hosts,
                                                  secret_name |-> secret_name]))])

\* <builder>.manifest
manifest(b) ==
    CASE b.kind = "Deployment"      -> Deployment_manifest(b)
      [] b.kind = "StatefulSet"     -> StatefulSet_manifest(b)
      [] b.kind = "Secret"          -> Secret_manifest(b)
      [] b.kind = "SecretImagePull" -> SecretImagePull_manifest(b)
      [] b.kind = "ConfigMap"       -> ConfigMap_manifest(b)
      [] b.kind = "Ingress"         -> Ingress_manifest(b)
      [] b.kind = "Job"             -> Job_manifest(b)
      [] b.kind = "CronJob"         -> CronJob_manifest(b)
      [] b.kind = "Pod"             -> Pod_manifest(b)

\* <builder>.set_labels(**kwargs)
set_labels(b, kwargs) ==
    IF b.kind \in {"Deployment", "StatefulSet"} THEN Workload_set_labels(b, kwargs)
    ELSE ObjectMetadata_set_labels(b, kwargs)

\* what a manifest o holds, read while the builder is b
Content(o, b) ==
    [body        |-> o.body.val,
     metadata    |-> IF o.metadata.alias THEN b._metadata ELSE o.metadata.val,
     string_data |-> IF o.string_data.alias THEN DictOf(b._string_data) ELSE o.string_data.val,
     data        |-> IF o.data.alias THEN DictOf(b._binary_data) ELSE o.data.val]

Contents(os, b) == [i \in 1..Len(os) |-> Content(os[i], b)]

\* the caller writes o.metadata.labels = labels on a manifest it was given
write_metadata_labels(os, i, b, labels) ==
    IF os[i].metadata.alias
    THEN [os |-> os, b |-> [b EXCEPT !._metadata.labels = labels]]
    ELSE [os |-> [os EXCEPT ![i].metadata.val.labels = labels], b |-> b]

\* the caller writes o.string_data[key] = value
write_string_data(os, i, b, key, value) ==
    IF os[i].string_data.alias
    THEN [os |-> os, b |-> [b EXCEPT !._string_data = (key :> value) @@ @]]
    ELSE [os |-> [os EXCEPT ![i].string_data.val.dict = (key :> value) @@ @], b |-> b]

\* the caller writes o.api_version = value, or o.spec.ingress_class_name =
\* value where the manifest has a spec with that field
write_body(os, i, b, value) ==
    [os |-> [os EXCEPT ![i].body.val =
                 IF "spec" \in DOMAIN @ /\ "ingress_class_name" \in DOMAIN @.spec
                 THEN [@ EXCEPT !.spec.ingress_class_name = value]
                 ELSE [@ EXCEPT !.api_version = value]],
     b |-> b]

MaxCalls == 3

BuilderKinds == {"Deployment", "StatefulSet", "Secret", "SecretImagePull", "ConfigMap",
                 "Ingress"}
WorkloadKinds  == {"Deployment", "StatefulSet"}
TemplateKinds  == {"Job", "CronJob", "Pod"}
PrimitiveKinds == {"Secret", "SecretImagePull", "ConfigMap"}

LabelArgs       == {("app" :> "web")}
MatchLabelArgs  == {("app" :> "web"), ("app" :> "web") @@ ("tier" :> "fe")}
ServiceNameArgs == {"", "svc"}
ReplicaArgs     == {3}
\* set_strategy is tried with a type both workloads know and with one neither does
StrategyArgs    == {<<"RollingUpdate", IntArg(1), IntArg(0)>>, <<"Bogus", NoneArg, NoneArg>>}
PodManagementPolicyArgs == {"Parallel", "Bogus"}
MatchExprArgs ==
    {<<"app", "In", <<"web">>>>, <<"app", "In", <<"db">>>>, <<"tier", "Exists", <<>>>>,
     <<"app", "Near", <<"web">>>>}
DataKeys   == {"password"}
DataValues == {"s3cret", "hunter2"}
RegistryArgs ==
    {<<"r.io", "u", "p", "e@x">>, <<"r.io", "v", "q", "e@x">>, <<"q.io", "u", "p", "e@x">>}
Hosts == {"a.io", "b.io"}
Paths == {"/", "/api"}
ObjectRef == TypedLocalObjectReference("StorageBucket", "assets")
ServiceNameOpts == {NoneArg, StrArg("svc")}
ServicePortOpts == {NoneArg, IntArg(80), StrArg("http")}
RefOpts         == {NoneArg, ObjectRef}
\* the backends add_rule is tried with: a service, a reference, nothing
RuleBackendArgs ==
    {<<StrArg("svc"), IntArg(80), NoneArg>>, <<NoneArg, NoneArg, ObjectRef>>,
     <<NoneArg, NoneArg, NoneArg>>}
TlsArgs == {<<<<"a.io">>, "s1">>, <<<<"b.io">>, "s1">>, <<<<"a.io">>, "s2">>}

BuilderCall(op, args, exc) ==
    [op |-> op, args |-> args, exc |-> exc, prior |-> bcall.op, n |-> bcall.n + 1,
     before |-> [b |-> bld, contents |-> Contents(emitted, bld)]]

AskedExpr(a, key, operator, values) ==
    IF \E i \in 1..Len(a.exprs) : a.exprs[i].key = key /\ a.exprs[i].operator = operator
    THEN a
    ELSE [a EXCEPT !.exprs = Append(@, [key |-> key, operator |-> operator,
                                        values |-> values])]

AskedRule(a, host, path, args) ==
    LET known == {i \in 1..Len(a.rules) : a.rules[i].host = host}
        i     == CHOOSE k \in known : TRUE
        entry == [path |-> path, args |-> args]
    IN  IF known = {}
        THEN [a EXCEPT !.rules = Append(@, [host |-> host, paths |-> <<entry>>])]
        ELSE IF \E k \in 1..Len(a.rules[i].paths) : a.rules[i].paths[k].path = path
             THEN a
             ELSE [a EXCEPT !.rules[i].paths = Append(@, entry)]

AskedTls(a, hosts, secret_name) ==
    IF \E i \in 1..Len(a.tls) : a.tls[i].secret_name = secret_name
    THEN a
    ELSE [a EXCEPT !.tls = Append(@, [hosts |-> hosts, secret_name |-> secret_name])]

BuildInit ==
    /\ ns \in DefaultNamespaces
    /\ call = NoCall
    /\ calls = <<>>
    /\ result = NoResult
    /\ WaitIdle
    /\ ExecIdle
    /\ BuildIdle
    /\ NewIdle

\* the builder takes another call
Building(kinds) == bld.kind \in kinds /\ bcall.n < MaxCalls

New ==
    \E kind \in BuilderKinds \cup TemplateKinds, name \in Names :
      /\ bld = NoBuilder
      /\ bld' = CASE kind = "Deployment"      -> Deployment(name)
                  [] kind = "StatefulSet"     -> StatefulSet(name)
                  [] kind = "Secret"          -> Secret(name, "Opaque")
                  [] kind = "SecretImagePull" -> SecretImagePull(name)
                  [] kind = "ConfigMap"       -> ConfigMap(name)
                  [] kind = "Ingress"         -> Ingress(name)
                  [] kind = "Job"             -> Job(name)
                  [] kind = "CronJob"         -> CronJob(name)
                  [] kind = "Pod"             -> Pod(name)
      /\ bcall' = [NoBuilderCall EXCEPT !.op = "new"]
      /\ UNCHANGED <<emitted, asked>>
      /\ UNCHANGED <<newVars, apiVars, waitVars, execVars>>

SetLabels ==
    \E kwargs \in LabelArgs :
      LET r == set_labels(bld, kwargs)
      IN  /\ Building(BuilderKinds)
          /\ bld' = r.b
          /\ bcall' = BuilderCall("set_labels", <<kwargs>>, r.exc)
          /\ UNCHANGED <<emitted, asked>>
          /\ UNCHANGED <<newVars, apiVars, waitVars, execVars>>

SetServiceName ==
    \E name \in ServiceNameArgs :
      LET r == StatefulSet_set_service_name(bld, name)
      IN  /\ Building({"StatefulSet"})
          /\ bld' = r.b
          /\ bcall' = BuilderCall("set_service_name", <<name>>, r.exc)
          /\ UNCHANGED <<emitted, asked>>
          /\ UNCHANGED <<newVars, apiVars, waitVars, execVars>>

SetSelectorMatchLabels ==
    \E kwargs \in MatchLabelArgs :
      LET r == Workload_set_selector_match_labels(bld, kwargs)
      IN  /\ Building(WorkloadKinds)
          /\ bld' = r.b
          /\ bcall' = BuilderCall("set_selector_match_labels", <<kwargs>>, r.exc)
          /\ asked' = [asked EXCEPT !.match_labels = kwargs]
          /\ UNCHANGED emitted
          /\ UNCHANGED <<newVars, apiVars, waitVars, execVars>>

SetReplicas ==
    \E n \in ReplicaArgs :
      LET r == Workload_set_replicas(bld, n)
      IN  /\ Building(WorkloadKinds)
          /\ bld' = r.b
          /\ bcall' = BuilderCall("set_replicas", <<n>>, r.exc)
          /\ UNCHANGED <<emitted, asked>>
          /\ UNCHANGED <<newVars, apiVars, waitVars, execVars>>

SetStrategy ==
    \E a \in StrategyArgs :
      LET r == IF bld.kind = "Deployment"
               THEN Deployment_set_strategy(bld, a[1], a[2], a[3])
               ELSE StatefulSet_set_strategy(bld, a[1], a[2], a[3])
      IN  /\ Building(WorkloadKinds)
          /\ bld' = r.b
          /\ bcall' = BuilderCall("set_strategy", a, r.exc)
          /\ UNCHANGED <<emitted, asked>>
          /\ UNCHANGED <<newVars, apiVars, waitVars, execVars>>

SetPodManagementPolicy ==
    \E policy \in PodManagementPolicyArgs :
      LET r == StatefulSet_set_pod_management_policy(bld, policy)
      IN  /\ Building({"StatefulSet"})
          /\ bld' = r.b
          /\ bcall' = BuilderCall("set_pod_management_policy", <<policy>>, r.exc)
          /\ UNCHANGED <<emitted, asked>>
          /\ UNCHANGED <<newVars, apiVars, waitVars, execVars>>

AddSelectorMatchExpressions ==
    \E a \in MatchExprArgs :
      LET r == Workload_add_selector_match_expressions(bld, a[1], a[2], a[3])
      IN  /\ Building(WorkloadKinds)
          /\ bld' = r.b
          /\ bcall' = BuilderCall("add_selector_match_expressions", a, r.exc)
          /\ asked' = IF r.exc = "none" THEN AskedExpr(asked, a[1], a[2], a[3]) ELSE asked
          /\ UNCHANGED emitted
          /\ UNCHANGED <<newVars, apiVars, waitVars, execVars>>

Set ==
    \E key \in DataKeys, value \in DataValues :
      LET r == V1Primitive_set(bld, key, value)
      IN  /\ Building(PrimitiveKinds)
          /\ bld' = r.b
          /\ bcall' = BuilderCall("set", <<key, value>>, r.exc)
          /\ UNCHANGED <<emitted, asked>>
          /\ UNCHANGED <<newVars, apiVars, waitVars, execVars>>

AddRegistry ==
    \E a \in RegistryArgs :
      LET r == SecretImagePull_add_registry(bld, a[1], a[2], a[3], a[4])
      IN  /\ Building({"SecretImagePull"})
          /\ bld' = r.b
          /\ bcall' = BuilderCall("add_registry", a, r.exc)
          /\ UNCHANGED <<emitted, asked>>
          /\ UNCHANGED <<newVars, apiVars, waitVars, execVars>>

SetDefaultBackend ==
    \E service_name \in ServiceNameOpts, service_port \in ServicePortOpts, ref \in RefOpts :
      LET r == Ingress_set_default_backend(bld, service_name, service_port, ref)
      IN  /\ Building({"Ingress"})
          /\ bld' = r.b
          /\ bcall' = BuilderCall("set_default_backend",
                                  <<service_name, service_port, ref>>, r.exc)
          /\ UNCHANGED <<emitted, asked>>
          /\ UNCHANGED <<newVars, apiVars, waitVars, execVars>>

AddRule ==
    \E host \in Hosts, path \in Paths, a \in RuleBackendArgs :
      LET r == Ingress_add_rule(bld, host, path, "Prefix", a[1], a[2], a[3])
      IN  /\ Building({"Ingress"})
          /\ bld' = r.b
          /\ bcall' = BuilderCall("add_rule", <<host, path, a>>, r.exc)
          /\ asked' = IF r.exc = "none" THEN AskedRule(asked, host, path, a) ELSE asked
          /\ UNCHANGED emitted
          /\ UNCHANGED <<newVars, apiVars, waitVars, execVars>>

AddTls ==
    \E a \in TlsArgs :
      LET r == Ingress_add_tls(bld, a[1], a[2])
      IN  /\ Building({"Ingress"})
          /\ bld' = r.b
          /\ bcall' = BuilderCall("add_tls", a, r.exc)
          /\ asked' = IF r.exc = "none" THEN AskedTls(asked, a[1], a[2]) ELSE asked
          /\ UNCHANGED emitted
          /\ UNCHANGED <<newVars, apiVars, waitVars, execVars>>

\* the caller reads <builder>.manifest
Manifest ==
    LET r == manifest(bld)
    IN  /\ Building(BuilderKinds \cup TemplateKinds)
        /\ bld' = r.b
        /\ emitted' = IF r.exc = "none" THEN Append(emitted, r.o) ELSE emitted
        /\ bcall' = BuilderCall("manifest", <<>>, r.exc)
        /\ UNCHANGED asked
        /\ UNCHANGED <<newVars, apiVars, waitVars, execVars>>

\* the caller writes into a manifest it was given
WriteManifest ==
    \E i \in 1..Len(emitted), part \in {"metadata.labels", "string_data", "body"} :
      LET r == CASE part = "metadata.labels" ->
                      write_metadata_labels(emitted, i, bld, DictOf(("owner" :> "me")))
                 [] part = "string_data" ->
                      write_string_data(emitted, i, bld, "extra", "x")
                 [] part = "body" ->
                      write_body(emitted, i, bld, "changed")
      IN  /\ Building(BuilderKinds \cup TemplateKinds)
          /\ part = "string_data" =>
                (emitted[i].string_data.alias \/ ~emitted[i].string_data.val.none)
          /\ bld' = r.b
          /\ emitted' = r.os
          /\ bcall' = BuilderCall("write_manifest", <<i, part>>, "none")
          /\ UNCHANGED asked
          /\ UNCHANGED <<newVars, apiVars, waitVars, execVars>>

BuildNext ==
    New \/ SetLabels \/ SetServiceName \/ SetSelectorMatchLabels \/ SetReplicas
        \/ SetStrategy \/ SetPodManagementPolicy \/ AddSelectorMatchExpressions
        \/ Set \/ AddRegistry \/ SetDefaultBackend
        \/ AddRule \/ AddTls \/ Manifest \/ WriteManifest

SpecBuild == BuildInit /\ [][BuildNext]_vars

-----------------------------------------------------------------------------
(* The construction of the facade.  env is what the constructor finds      *)
(* where it runs: the two service environment variables, the namespace     *)
(* file of the service account and the kubeconfig with its current         *)
(* context.  ns is None until the constructor has set it.                  *)

\* the kubeconfig: absent, or its current context with or without a namespace
NoKubeConfig == [exists |-> FALSE]
KubeConfig(namespace) == [exists |-> TRUE, namespace |-> namespace]

Envs ==
    [set : {TRUE},
     service_host   : {NoneArg, StrArg("10.0.0.1")},
     service_port   : {NoneArg, StrArg("443")},
     namespace_file : {NoneArg, StrArg("kube-system")},
     kubeconfig     : {NoKubeConfig, KubeConfig(NoneArg), KubeConfig(StrArg("team"))}]

NamespaceOpts == {NoneArg, StrArg("prod")}

\* KubeApi.is_use_in_cluster: both variables are set to a non-empty value
is_use_in_cluster(e) == ~Falsy(e.service_host) /\ ~Falsy(e.service_port)

\* what a constructor call has come to
Constructed(exc, _ns, _conf, loaded) ==
    [exc |-> exc, _ns |-> _ns, _conf |-> _conf, loaded |-> loaded]

\* KubeApi.__init__, first half: the configuration is taken from conf, from
\* the service account or from the kubeconfig
KubeApi_configure(e, conf) ==
    IF conf THEN Constructed("none", NoneArg, "conf", "set_default")
    ELSE IF is_use_in_cluster(e)
    THEN IF e.namespace_file = NoneArg
         THEN Constructed("FileNotFoundError", NoneArg, "None", "load_incluster_config")
         ELSE Constructed("none", e.namespace_file, "None", "load_incluster_config")
    ELSE IF ~e.kubeconfig.exists
    THEN Constructed("ConfigException", NoneArg, "None", "none")
    ELSE Constructed("none", NoneArg, "None", "load_kube_config")

\* curr_ctx.get('context', {}).get('namespace', 'default')
context_namespace(kubeconfig) ==
    IF kubeconfig.namespace = NoneArg THEN StrArg("default") ELSE kubeconfig.namespace

\* KubeApi.__init__(namespace, conf)
KubeApi(e, namespace, conf) ==
    LET c == KubeApi_configure(e, conf)
    IN  IF c.exc # "none" THEN c
        ELSE IF ~Falsy(namespace) THEN [c EXCEPT !._ns = namespace]
        ELSE IF c._ns # NoneArg THEN c
        ELSE IF ~e.kubeconfig.exists THEN [c EXCEPT !.exc = "ConfigException"]
        ELSE [c EXCEPT !._ns = context_namespace(e.kubeconfig)]

\* KubeApi.from_token(host, token, namespace): a configuration is always given
from_token(e, namespace) == KubeApi(e, namespace, TRUE)

NewInit ==
    /\ ns = "None"
    /\ call = NoCall
    /\ calls = <<>>
    /\ result = NoResult
    /\ ExecIdle
    /\ WaitIdle
    /\ BuildIdle
    /\ env \in Envs
    /\ ctor = NoCtor
    /\ stat = NoStatus

\* KubeApi(namespace, conf) is called
NewKubeApi ==
    \E namespace \in NamespaceOpts, conf \in BOOLEAN :
      LET c == KubeApi(env, namespace, conf)
      IN  /\ ctor = NoCtor
          /\ ctor' = [pc |-> "done", via |-> "KubeApi", namespace |-> namespace,
                      conf |-> conf, exc |-> c.exc, _conf |-> c._conf, loaded |-> c.loaded]
          /\ ns' = IF c.exc = "none" THEN c._ns.s ELSE ns
          /\ UNCHANGED <<env, stat, call, calls, result>>
          /\ UNCHANGED <<waitVars, execVars, buildVars>>

\* KubeApi.from_token(host, token, namespace) is called
FromToken ==
    \E namespace \in NamespaceOpts :
      LET c == from_token(env, namespace)
      IN  /\ ctor = NoCtor
          /\ ctor' = [pc |-> "done", via |-> "from_token", namespace |-> namespace,
                      conf |-> TRUE, exc |-> c.exc, _conf |-> c._conf, loaded |-> c.loaded]
          /\ ns' = IF c.exc = "none" THEN c._ns.s ELSE ns
          /\ UNCHANGED <<env, stat, call, calls, result>>
          /\ UNCHANGED <<waitVars, execVars, buildVars>>

NewNext == NewKubeApi \/ FromToken

SpecNew == NewInit /\ [][NewNext]_vars

-----------------------------------------------------------------------------
(* PodStatus and JobStatus.  stat is the object under study, with the      *)
(* value it was made from and the integer int() gave for it.               *)

MaxPods == 2

Phases == {"Pending", "Running", "Succeeded", "Failed", "Unknown"}

\* a count of a V1JobStatus: None or a number of pods
Counts == {NoneArg} \cup {IntArg(n) : n \in 0..MaxPods}

V1JobStatus(active, succeeded, failed) ==
    [active |-> active, succeeded |-> succeeded, failed |-> failed]

\* PodStatus.__init__(status)
PodStatus(status) == [class |-> "PodStatus", _status |-> status]

\* PodStatus.__int__
PodStatus_int(o) ==
    IF o._status \in {"Running", "Succeeded"} THEN 0
    ELSE IF o._status \in {"Failed"} THEN 1
    ELSE 255

\* JobStatus.__init__(status): each count is compared with 1
JobStatus(status) ==
    LET s == IF status.active = IntArg(1) THEN "Running"
             ELSE IF status.succeeded = IntArg(1) THEN "Succeeded"
             ELSE IF status.failed = IntArg(1) THEN "Failed"
             ELSE "Unknown"
    IN  [PodStatus(s) EXCEPT !.class = "JobStatus"]

StatusInit ==
    /\ ns \in DefaultNamespaces
    /\ call = NoCall
    /\ calls = <<>>
    /\ result = NoResult
    /\ ExecIdle
    /\ WaitIdle
    /\ BuildIdle
    /\ NewIdle

\* PodStatus(phase) is made
NewPodStatus ==
    \E phase \in Phases :
      /\ stat = NoStatus
      /\ stat' = PodStatus(phase) @@ [of |-> StrArg(phase), code |-> NoneArg]
      /\ UNCHANGED <<env, ctor, apiVars, waitVars, execVars, buildVars>>

\* JobStatus(job.status) is made
NewJobStatus ==
    \E active \in Counts, succeeded \in Counts, failed \in Counts :
      LET status == V1JobStatus(active, succeeded, failed)
      IN  /\ stat = NoStatus
          /\ stat' = JobStatus(status) @@ [of |-> status, code |-> NoneArg]
          /\ UNCHANGED <<env, ctor, apiVars, waitVars, execVars, buildVars>>

\* int(status) is taken
IntOfStatus ==
    /\ stat # NoStatus
    /\ stat.code = NoneArg
    /\ stat' = [stat EXCEPT !.code = IntArg(PodStatus_int(stat))]
    /\ UNCHANGED <<env, ctor, apiVars, waitVars, execVars, buildVars>>

StatusNext == NewPodStatus \/ NewJobStatus \/ IntOfStatus

SpecStatus == StatusInit /\ [][StatusNext]_vars

-----------------------------------------------------------------------------
(* Properties of the request wrappers and the per-kind methods (SpecApi).  *)

\* the call went through _wrapper: a get, a delete or a scale PATCH
ThroughWrapper == result.via.wrapper = "_wrapper"
ThroughWrapperCreate == result.via.wrapper = "_wrapper_create"

\* C1: for every get, delete or patch routed through _wrapper, when the
\* wrapped API call fails with HTTP 404 the wrapper returns null and raises
\* nothing, whatever check_err is; a get or delete then returns null too.
C1_Wrapper404Null ==
    (ThroughWrapper /\ result.status = 404) =>
        /\ call.op \in {"get", "delete", "scale"}
        /\ result.via.ret = "None"
        /\ result.via.exc = "none"
        /\ result.log = "debug"
        /\ call.op \in {"get", "delete"} => (result.ret = "None" /\ result.exc = "none")

\* a get with check_err = True met a 404 and returned null
C1_Witness ==
    /\ call.op = "get"
    /\ ThroughWrapper
    /\ result.via.check_err
    /\ result.status = 404
    /\ result.ret = "None"
    /\ result.exc = "none"

\* C2: a 409 becomes a null return only on the create path, for both values
\* of check_err; through _wrapper (get, delete, scale PATCH) a 409 is an
\* ordinary API error: re-raised when check_err is true, logged at error
\* level and answered with null when it is false.
C2_Conflict409OnlyOnCreate ==
    /\ (ThroughWrapperCreate /\ result.status = 409) =>
          /\ call.op = "create"
          /\ result.ret = "None"
          /\ result.exc = "none"
          /\ result.log = "debug"
    /\ (ThroughWrapper /\ result.status = 409) =>
          IF result.via.check_err
          THEN result.via.exc = "ApiException" /\ result.exc = "ApiException"
          ELSE result.via.ret = "None" /\ result.via.exc = "none" /\ result.log = "error"

\* a create with check_err = True met a 409 and returned null
C2_Witness ==
    /\ call.op = "create"
    /\ ThroughWrapperCreate
    /\ result.via.check_err
    /\ result.status = 409
    /\ result.ret = "None"
    /\ result.exc = "none"

\* the API failed with an error that no wrapper turns into null by itself
OtherApiError ==
    /\ call.op \in {"create", "get", "delete"}
    /\ result.status \notin {0, 200, 404}
    /\ ~(call.op = "create" /\ result.status = 409)

\* what the claim expects of such an error under check_err = ce
FollowsCheckErr(ce) ==
    IF ce THEN result.exc = "ApiException"
    ELSE result.ret = "None" /\ result.exc = "none" /\ result.log = "error"

\* C3 as stated: every create, get and delete accepts check_err (passing it
\* is no error and the value reaches the wrapper), an API error other than
\* 404 (409 on create) is re-raised if check_err is true and otherwise logged
\* and answered with null; check_err defaults to true on create, for
\* namespace_create to false.
C3_Claimed ==
    /\ (call.op \in {"create", "get", "delete"} /\ "check_err" \in DOMAIN call.kw) =>
          (calls # <<>> /\ result.via.check_err = call.kw["check_err"])
    /\ (OtherApiError /\ "check_err" \in DOMAIN call.kw) =>
          FollowsCheckErr(call.kw["check_err"])
    /\ (OtherApiError /\ call.op = "create" /\ "check_err" \notin DOMAIN call.kw) =>
          FollowsCheckErr(call.kind # "namespace")

\* the methods that declare a check_err parameter
DeclaresCheckErr ==
    \/ call.op = "create"
    \/ call.op = "get" /\ call.kind # "namespace"
    \/ call.op = "delete" /\ call.kind = "ingress"

\* the check_err in force in a call: the caller's value or the default where
\* the method declares the parameter, false everywhere else
CheckErrInForce ==
    IF DeclaresCheckErr
    THEN KwGet(call.kw, "check_err", ~(call.op = "create" /\ call.kind = "namespace"))
    ELSE FALSE

\* C3 amended: create (every kind), get (every kind but namespace) and
\* ingress_delete accept check_err, default true and for namespace_create
\* false; namespace_get and every other delete take no check_err (passing it
\* is a TypeError before any request) and act as with check_err = false; an
\* API error other than 404 (409 on create) is re-raised iff the check_err
\* in force is true and is otherwise logged and answered with null.
C3_CheckErrWhereDeclared ==
    /\ (call.op \in {"create", "get", "delete"} /\ "check_err" \in DOMAIN call.kw) =>
          IF DeclaresCheckErr
          THEN calls # <<>> /\ result.via.check_err = call.kw["check_err"]
          ELSE calls = <<>> /\ result.exc = "TypeError"
    /\ OtherApiError => FollowsCheckErr(CheckErrInForce)

\* namespace_create without check_err met a 500 and returned null
C3_Witness ==
    /\ call.op = "create"
    /\ call.kind = "namespace"
    /\ "check_err" \notin DOMAIN call.kw
    /\ result.status = 500
    /\ result.ret = "None"
    /\ result.exc = "none"
    /\ result.log = "error"

\* C4 as stated: every single-request operation (create, get, delete, scale)
\* returns null and raises nothing when the API answers 404.
C4_Claimed ==
    (call.op \in {"create", "get", "delete", "scale"} /\ result.status = 404) =>
        (result.ret = "None" /\ result.exc = "none")

\* the positional arguments a request of this call should carry, for the
\* namespace n, when the kind is a custom object
CustomArgs(n) ==
    IF call.namespaced
    THEN <<Routes.group, Routes.version, n, Routes.plural, call.name>>
    ELSE <<Routes.group, Routes.version, Routes.plural, call.name>>

\* C5 as stated: every delete sends propagation_policy = "Foreground" when
\* the caller gives none, and the caller's value when one is given.
C5_Claimed ==
    (call.op = "delete" /\ calls # <<>>) =>
        /\ "propagation_policy" \in DOMAIN calls[1].kw
        /\ calls[1].kw["propagation_policy"]
              = KwGet(call.kw, "propagation_policy", "Foreground")

\* the namespace a library invocation c is aimed at: the positional argument
\* in the namespace slot of its function ("" when the slot is not filled)
TargetNamespace(c) ==
    LET slot == IF c.func.kind = "custom_object" THEN 3
                ELSE IF c.func.verb \in {"create", "list"} THEN 1 ELSE 2
    IN  IF Len(c.args) >= slot THEN c.args[slot] ELSE ""

\* the call is namespaced: every kind but namespace, custom objects when asked
NamespacedCall ==
    /\ call.op \in {"create", "get", "list", "delete", "scale"}
    /\ call.kind # "namespace"
    /\ call.namespaced

\* C6 as stated: a namespaced call made with namespace=X aims its request
\* at X, one made without it at the default namespace; the default namespace
\* never changes.  (Stated of the requests that carry the right number of
\* positional arguments; the others are the matter of C7.)
C6_Claimed ==
    /\ (NamespacedCall /\ calls # <<>> /\ Len(calls[1].args) = Arity(calls[1].func)) =>
          /\ calls[1].func.scope = "namespaced"
          /\ TargetNamespace(calls[1]) = KwGet(call.kw, "namespace", ns)
          /\ "namespace" \notin DOMAIN calls[1].kw
    /\ ns \in DefaultNamespaces

\* C7 as stated: custom object create / get / delete call the namespaced
\* endpoint with (group, version, namespace, plural, name-or-body) when
\* namespaced is true and the cluster endpoint with (group, version, plural,
\* name-or-body) when it is false.
C7_Claimed ==
    (call.kind = "custom_object" /\ call.op \in {"create", "get", "delete"} /\ calls # <<>>) =>
        /\ calls[1].func.scope = Scope(call.namespaced)
        /\ calls[1].args = CustomArgs(KwGet(call.kw, "namespace", ns))

-----------------------------------------------------------------------------
(* Properties of the streaming executor (SpecExec).                        *)

\* the caller asked for preloaded content
Preloaded == KwGet(ecall.kw, "_preload_content", FALSE)

\* the command of the call as one line of text
CommandText ==
    CASE ecall.command = <<"false">>    -> "false"
      [] ecall.command = <<"ls", "-l">> -> "ls -l"
      [] OTHER                          -> "/bin/sh -c cat /etc/hosts"

\* C8: not preloaded, _exec raises an exec failure whenever the decoded
\* status is not "Success", with a message made of the command words joined
\* by spaces and the integer exit code of details.causes[0].message; on
\* "Success" it raises nothing and returns null.
C8_ExecFailure ==
    (epc = "done" /\ ~Preloaded /\ ecall.payload # <<>>) =>
        IF ecall.payload = StatusSuccess
        THEN /\ eresult.exec_ret = "None"
             /\ eresult.exec_exc = "none"
             /\ eresult.ret = "None"
             /\ eresult.exc = "none"
        ELSE /\ eresult.exec_exc = "Exception"
             /\ eresult.exc = "Exception"
             /\ eresult.msg.cmd = CommandText
             /\ \A c \in ExitCodes :
                   ecall.payload = StatusFailure(c) => eresult.msg.code = c

\* run_command of "ls -l" ended with exit code 127 and raised
C8_Witness ==
    /\ epc = "done"
    /\ ecall.entry = "run_command"
    /\ ~Preloaded
    /\ ecall.command = <<"ls", "-l">>
    /\ ecall.payload = StatusFailure(127)
    /\ eresult.exc = "Exception"
    /\ eresult.msg = [cmd |-> "ls -l", code |-> 127]

\* C9: preloaded, run_command writes to in-memory line collectors and
\* returns (stdout sink, stderr sink, parsed error document) whatever the
\* status, never raising on "Failure"; not preloaded, stdout goes to the
\* info log and stderr to the error log.
C9_Preloaded ==
    /\ (ecall.entry = "run_command" /\ epc \in {"loop", "done"}) =>
          IF Preloaded
          THEN /\ sinks.stdout_kind = "ResponseDataCollector"
               /\ sinks.stderr_kind = "ResponseDataCollector"
          ELSE /\ sinks.stdout_kind = "Logger(info)"
               /\ sinks.stderr_kind = "Logger(error)"
    /\ (ecall.entry = "run_command" /\ epc = "done" /\ Preloaded) =>
          /\ eresult.ret = "triple"
          /\ eresult.exc = "none"
          /\ eresult.err.none = (ecall.payload = <<>>)
          /\ ecall.payload = StatusSuccess => eresult.err.status = "Success"
          /\ \A c \in ExitCodes :
                ecall.payload = StatusFailure(c) =>
                    (eresult.err.status = "Failure" /\ eresult.err.message = Decimal(c))

\* a preloaded run_command got output, ended with status Failure and
\* returned the triple
C9_Witness ==
    /\ epc = "done"
    /\ ecall.entry = "run_command"
    /\ Preloaded
    /\ ecall.payload = StatusFailure(1)
    /\ sinks.stdout # <<>>
    /\ eresult.ret = "triple"
    /\ eresult.err.status = "Failure"

\* the file of copy_file_from_pod was opened: _exec was entered
FileWasOpened == ecall.entry = "copy_file_from_pod" /\ calls # <<>>

\* C10: copy_file_from_pod closes the file on every exit path after it was
\* opened -- the command succeeded, _exec raised an exec failure, the
\* transport or another step raised -- and the exception, if any, reaches
\* the caller; while the command streams the file is open.
C10_FileClosed ==
    /\ (FileWasOpened /\ epc \in {"done", "aborted"}) =>
          (fd = "closed" /\ eresult.exc = eresult.exec_exc)
    /\ (FileWasOpened /\ epc = "loop") => fd = "open"
    /\ (ecall.entry = "copy_file_from_pod" /\ ~FileWasOpened) => fd = "none"

\* the transport raised while the file was open: closed, and the caller
\* sees the exception
C10_Witness ==
    /\ FileWasOpened
    /\ epc = "aborted"
    /\ sinks.stdout # <<>>
    /\ eresult.exc = "TransportError"
    /\ fd = "closed"

RECURSIVE Flatten(_)
\* the texts of a sequence, one after the other
Flatten(texts) == IF texts = <<>> THEN <<>> ELSE Head(texts) \o Flatten(Tail(texts))

\* the frames the remote end has delivered so far, in order
Delivered ==
    LET all == Wire(ecall.frames, ecall.payload)
    IN  SubSeq(all, 1, Len(all) - Len(wire))

RECURSIVE DataOf(_, _)
\* the data of the frames of a stream, one after the other
DataOf(frames, stream) ==
    IF frames = <<>> THEN <<>>
    ELSE (IF Head(frames).ch = stream THEN Head(frames).data ELSE <<>>)
             \o DataOf(Tail(frames), stream)

\* the text that has arrived on a stream so far, in order of arrival
Arrived(stream) == DataOf(Delivered, stream)

\* the text that was written to the sink of a stream, in order of writing
Written(stream) == Flatten(sinks[stream])

\* C26: when _exec has left its loop and decoded the status document, the
\* channel is closed, the transport holds no stdout and no stderr data, and
\* everything that arrived on either stream has been written to its sink.
C26_StatusAfterDrain ==
    epc = "done" =>
        /\ ~chan.open
        /\ chan.stdout = <<>>
        /\ chan.stderr = <<>>
        /\ Written("stdout") = Arrived("stdout")
        /\ Written("stderr") = Arrived("stderr")

\* a run that got stdout and stderr data and a failure status has ended
C26_Witness ==
    /\ epc = "done"
    /\ Arrived("stdout") # <<>>
    /\ Arrived("stderr") # <<>>
    /\ Written("stderr") = Arrived("stderr")
    /\ eresult.err.status = "Failure"

\* C27: at every point of a run, what was written to the sink of a stream,
\* followed by what the transport still buffers of that stream, is the text
\* that arrived on that stream in arrival order -- nothing lost, doubled,
\* reordered or passed to the other sink; and once the transport is closed
\* the next step of the loop is to leave it.
C27_SinksInArrivalOrder ==
    [][/\ epc' \in {"loop", "done", "aborted"} =>
             /\ Written("stdout")' \o chan'.stdout = Arrived("stdout")'
             /\ Written("stderr")' \o chan'.stderr = Arrived("stderr")'
       /\ (epc = "loop" /\ ~chan.open) => epc' = "done"]_vars

\* two stdout frames were written by two passes of the loop, in their order
C27_Witness ==
    /\ epc = "done"
    /\ Len(sinks.stdout) = 2
    /\ sinks.stdout[1] # sinks.stdout[2]
    /\ Written("stdout") = ecall.frames[1].data \o ecall.frames[2].data

-----------------------------------------------------------------------------
(* Properties of wait_pods and of the scale calls (SpecWait).              *)

\* C11 as stated: with delay >= 1, timeout >= 0 and start_delay >= 0, when
\* wait_pods ends in Timeout (every listing held a pod that is not ready)
\* the time it has slept, start_delay and every delay, is at most
\* timeout + start_delay.
C11_Claimed ==
    (wpods.pc = "raised" /\ wpods.exc = "TimeoutError"
        /\ wpods.delay >= 1 /\ wpods.given >= 0 /\ wpods.start_delay >= 0) =>
        wpods.slept <= wpods.given + wpods.start_delay

\* a pod is ready as the claim has it: no deletion timestamp and every
\* container status there is reports ready
ClaimedReady(pod) ==
    /\ pod.metadata.deletion_timestamp = ""
    /\ \/ pod.status.container_statuses.none
       \/ \A i \in 1..Len(pod.status.container_statuses.list) :
             /\ ~pod.status.container_statuses.list[i].none
             /\ pod.status.container_statuses.list[i].ready

\* a listing that ends the wait: no pod, or ready pods only
GoodListing(items) == \A i \in 1..Len(items) : ClaimedReady(items[i])

\* a listing was made and answered with pods
Listed == wpods.lists >= 1 /\ wpods.exc # "ApiException"

\* C12: wait_pods returns normally exactly at the first listing that is
\* empty or holds ready pods only (ready: no deletion timestamp and every
\* container status ready, no statuses counting as ready): it goes on or
\* ends in Timeout after a listing with a pod that is not ready, and it
\* returns after a good listing whatever is left of the timeout.
C12_ReturnsAtFirstGoodListing ==
    /\ wpods.pc = "returned" => (Listed /\ GoodListing(wpods.items))
    /\ (wpods.pc = "poll" /\ Listed) => ~GoodListing(wpods.items)
    /\ (wpods.pc = "raised" /\ wpods.exc = "TimeoutError") =>
          (Listed /\ ~GoodListing(wpods.items))
    /\ (Listed /\ GoodListing(wpods.items)) => wpods.pc = "returned"

\* wait_pods returned at a listing of ready pods made after listings with a
\* pod that was not ready had used up the timeout
C12_Witness ==
    /\ call.op = "wait_pods"
    /\ wpods.pc = "returned"
    /\ wpods.lists >= 2
    /\ wpods.timeout <= 0
    /\ wpods.items # <<>>
    /\ result.exc = "none"

\* the PATCH requests among the library calls made
IsPatch(c) == c.func.verb = "patch"

\* C13 as stated: scale_deployment / scale_stateful_set(name, N, wait) makes
\* exactly one PATCH for name with body {"spec": {"replicas": N}}; with
\* wait false no pods are listed; wait_pods is entered only with wait true,
\* after the PATCH returned, with the selector of the returned labels; a
\* PATCH that fails with an API error reaches the caller as that error and
\* no wait starts.
C13_Claimed ==
    call.op = "scale" =>
        /\ Len(calls) = 1
        /\ IsPatch(calls[1])
        /\ calls[1].func.kind = call.kind
        /\ calls[1].args[1] = call.name
        /\ calls[1].kw["body"] = [spec |-> [replicas |-> call.replicas]]
        /\ ~call.wait => wpods.pc = "idle"
        /\ wpods.pc # "idle" =>
              /\ call.wait
              /\ result.status = 200
              /\ wpods.label_selector = dict_to_labels(call.labels)
        /\ result.status \notin {0, 200} =>
              /\ result.exc = "ApiException"
              /\ wpods.pc = "idle"

\* the workloads of a listing that run replicas
Running(items) ==
    {items[i].metadata.name : i \in {k \in 1..Len(items) :
                                        /\ ~items[k].spec.replicas.none
                                        /\ items[k].spec.replicas.n > 0}}

\* the names patched to 0 replicas among the calls, for one kind
PatchedToZero(kind) ==
    {calls[i].args[1] : i \in {k \in 1..Len(calls) :
                                  /\ IsPatch(calls[k])
                                  /\ calls[k].func.kind = kind
                                  /\ calls[k].kw["body"] = [spec |-> [replicas |-> 0]]}}

\* C14 as stated: scale_down_all, unless an API error ends it, lists the
\* Deployments and then the StatefulSets of the current namespace, patches
\* to 0 exactly those with spec.replicas > 0, once each, every Deployment
\* before any StatefulSet, none with replicas 0 or unset, and waits for no
\* pod.
C14_Claimed ==
    (call.op = "scale_down_all" /\ sdall.pc \in {"returned", "raised"}
        /\ sdall.exc # "ApiException") =>
        /\ sdall.pc = "returned"
        /\ sdall.listed = <<"deployment", "stateful_set">>
        /\ PatchedToZero("deployment") = Running(sdall.deployments)
        /\ PatchedToZero("stateful_set") = Running(sdall.stateful_sets)
        /\ Cardinality({k \in 1..Len(calls) : IsPatch(calls[k])})
              = Cardinality(Running(sdall.deployments))
                  + Cardinality(Running(sdall.stateful_sets))
        /\ \A i, j \in 1..Len(calls) :
              (IsPatch(calls[i]) /\ IsPatch(calls[j]) /\ i < j) =>
                  ~(calls[i].func.kind = "stateful_set" /\ calls[j].func.kind = "deployment")
        /\ \A i \in 1..Len(calls) : calls[i].args[Len(calls[i].args)] = ns
        /\ wpods.pc = "idle"
        /\ ~result.wait.started

\* the least number of delays that cover a timeout
Ceil(timeout, delay) == (timeout + delay - 1) \div delay

\* C28 as stated: the timeout is counted down before it is tested, so that
\* with timeout > 0, delay > 0 and no pod ever ready, wait_pods has listed
\* the pods ceil(timeout / delay) times and slept delay one time less when
\* it raises Timeout.
C28_Claimed ==
    (wpods.pc = "raised" /\ wpods.exc = "TimeoutError"
        /\ wpods.given > 0 /\ wpods.delay > 0) =>
        /\ wpods.lists = Ceil(wpods.given, wpods.delay)
        /\ wpods.slept - wpods.start_delay
              = wpods.delay * (Ceil(wpods.given, wpods.delay) - 1)

-----------------------------------------------------------------------------
(* Properties of the manifest builders (SpecBuild).                        *)

\* the manifest handed out last
LastManifest == emitted[Len(emitted)]

\* C15 as stated: whatever mutators were called, reading manifest leaves
\* the builder's state as it was before the read, and a second read in a
\* row returns a manifest equal to the first.
C15_Claimed ==
    /\ bcall.op = "manifest" => bld = bcall.before.b
    /\ (bcall.op = "manifest" /\ bcall.prior = "manifest" /\ bcall.exc = "none"
          /\ Len(emitted) >= 2) =>
          Content(LastManifest, bld) = Content(emitted[Len(emitted) - 1], bld)

\* C16 as stated: a write into a returned manifest (its metadata labels,
\* its data map, its body) changes neither the builder's state nor the
\* content of any other manifest the builder returned.
C16_Claimed ==
    bcall.op = "write_manifest" =>
        /\ bld = bcall.before.b
        /\ \A j \in 1..Len(emitted) :
              j # bcall.args[1] => Content(emitted[j], bld) = bcall.before.contents[j]

\* the selector the calls so far asked for has a match label or a match
\* expression
SelectorAsked == DOMAIN asked.match_labels # {} \/ asked.exprs # <<>>

\* C17 as stated: StatefulSet.manifest fails with InvalidArgument exactly
\* when service_name is empty or the selector is empty, the selector being
\* non-empty once a match label was set or a match expression was added.
C17_Claimed ==
    (bld.kind = "StatefulSet" /\ bcall.op = "manifest") =>
        /\ bcall.exc \in {"none", "ValueError"}
        /\ bcall.exc = "ValueError" <=>
              (bld._sts.spec.service_name = "" \/ ~SelectorAsked)

\* C18 as stated: the manifest of a Deployment or StatefulSet holds in
\* spec.selector.matchExpressions one requirement per (key, operator) pair
\* added, in the order of the first adds and with their values.
C18_Claimed ==
    (bld.kind \in WorkloadKinds /\ bcall.op = "manifest" /\ bcall.exc = "none"
        /\ asked.exprs # <<>>) =>
        LET selector == LastManifest.body.val.spec.selector
        IN  /\ "match_expressions" \in DOMAIN selector
            /\ ~selector.match_expressions.none
            /\ selector.match_expressions.list = asked.exprs

\* the backend the claim expects of accepted arguments: a reference gives a
\* resource backend, an integer port port.number, a string port port.name
ClaimedBackend(service_name, service_port, ref) ==
    IF ref # NoneArg
    THEN [resource |-> ref, service |-> NoneArg]
    ELSE [resource |-> NoneArg,
          service |-> [type |-> "service", name |-> service_name,
                       port |-> IF service_port.type = "int"
                                THEN [number |-> service_port, name |-> NoneArg]
                                ELSE [number |-> NoneArg, name |-> service_port]]]

\* the rules the accepted add_rule calls ask for: one rule per host in the
\* order the hosts came, its paths in the order they came, each with the
\* backend of its first add
ClaimedRules ==
    [i \in 1..Len(asked.rules) |->
        [host |-> asked.rules[i].host,
         http |-> [paths |->
            [k \in 1..Len(asked.rules[i].paths) |->
                [backend |-> ClaimedBackend(asked.rules[i].paths[k].args[1],
                                            asked.rules[i].paths[k].args[2],
                                            asked.rules[i].paths[k].args[3]),
                 path |-> asked.rules[i].paths[k].path,
                 path_type |-> "Prefix"]]]]]

IngressRules(b) == IF b._ing.spec.rules.none THEN <<>> ELSE b._ing.spec.rules.list
IngressTls(b)   == IF b._ing.spec.tls.none THEN <<>> ELSE b._ing.spec.tls.list

\* C19: after any add_rule and add_tls calls on an Ingress every host has
\* one rule, every (host, path) one entry with the backend of its first add,
\* a new path of a known host is appended to that host's rule and leaves
\* the other rules alone, and every secret_name has one TLS entry, that of
\* its first add_tls.
C19_IngressRulesAndTls ==
    bld.kind = "Ingress" =>
        LET rules == IngressRules(bld)
            tls   == IngressTls(bld)
            was   == IngressRules(bcall.before.b)
        IN  /\ rules = ClaimedRules
            /\ tls = asked.tls
            /\ \A i, j \in 1..Len(rules) : rules[i].host = rules[j].host => i = j
            /\ \A i \in 1..Len(rules) : \A k, l \in 1..Len(rules[i].http.paths) :
                  rules[i].http.paths[k].path = rules[i].http.paths[l].path => k = l
            /\ \A i, j \in 1..Len(tls) : tls[i].secret_name = tls[j].secret_name => i = j
            /\ (bcall.op = "add_rule" /\ bcall.exc = "none"
                  /\ \E i \in 1..Len(was) : was[i].host = bcall.args[1]) =>
                  /\ Len(rules) = Len(was)
                  /\ \A i \in 1..Len(was) :
                        IF was[i].host # bcall.args[1] THEN rules[i] = was[i]
                        ELSE \/ rules[i] = was[i]
                             \/ /\ Len(rules[i].http.paths) = Len(was[i].http.paths) + 1
                                /\ SubSeq(rules[i].http.paths, 1, Len(was[i].http.paths))
                                      = was[i].http.paths

\* the third add_rule gave a known host a second path, after an add_rule
\* that named a path already there with another backend
C19_Witness ==
    /\ bld.kind = "Ingress"
    /\ bcall.op = "add_rule"
    /\ bcall.prior = "add_rule"
    /\ bcall.n = 3
    /\ Len(IngressRules(bld)) = 1
    /\ Len(IngressRules(bld)[1].http.paths) = 2
    /\ Len(IngressRules(bcall.before.b)[1].http.paths) = 1
    /\ IngressRules(bld)[1].http.paths[1].backend.resource = NoneArg
    /\ IngressRules(bld)[1].http.paths[2].backend.resource # NoneArg

\* the arguments the claim has _ingress_backend reject: neither a service
\* nor a reference, a service and a reference, a service without its port
ClaimedRejected(service_name, service_port, ref) ==
    \/ service_name = NoneArg /\ ref = NoneArg
    \/ service_name # NoneArg /\ service_port # NoneArg /\ ref # NoneArg
    \/ service_name # NoneArg /\ service_port = NoneArg

\* C20 as stated: set_default_backend raises InvalidArgument exactly for
\* these arguments and then leaves the builder unchanged; otherwise the
\* backend set is the resource backend of the reference or the service
\* backend with port.number or port.name.
C20_Claimed ==
    (bld.kind = "Ingress" /\ bcall.op = "set_default_backend") =>
        /\ bcall.exc = "ValueError" <=>
              ClaimedRejected(bcall.args[1], bcall.args[2], bcall.args[3])
        /\ bcall.exc = "ValueError" => bld = bcall.before.b
        /\ bcall.exc = "none" =>
              bld._ing.spec.default_backend
                  = ClaimedBackend(bcall.args[1], bcall.args[2], bcall.args[3])

\* C21 as stated: once set(key, value) has stored a textual value in a
\* Secret builder, the manifest the builder emits carries base64(value)
\* under data[key], and no key sits in both data and string_data.
C21_Claimed ==
    (bld.kind = "Secret" /\ bcall.op = "set" /\ bcall.exc = "none") =>
        LET r == manifest(bld)
            m == Content(r.o, r.b)
        IN  /\ r.exc = "none"
            /\ ~m.data.none
            /\ bcall.args[1] \in DOMAIN m.data.dict
            /\ m.data.dict[bcall.args[1]] = to_base64(bcall.args[2])
            /\ m.string_data.none
                  \/ (DOMAIN m.data.dict) \cap (DOMAIN m.string_data.dict) = {}

\* the closed set the claim gives an enumerated field of a workload builder
ClaimedEnum(kind, op) ==
    CASE op = "set_strategy" /\ kind = "Deployment"  -> {"RollingUpdate", "Recreate"}
      [] op = "set_strategy" /\ kind = "StatefulSet" -> {"RollingUpdate", "OnDelete"}
      [] op = "set_pod_management_policy"            -> {"OrderedReady", "Parallel"}
      [] op = "add_selector_match_expressions"       -> {"In", "NotIn", "Exists",
                                                         "DoesNotExist"}

\* the value of the enumerated field a call was made with
EnumArg == IF bcall.op = "add_selector_match_expressions" THEN bcall.args[2]
           ELSE bcall.args[1]

\* the enumerated field as the builder b holds it
StoredEnum(b, op) ==
    CASE op = "set_strategy" /\ b.kind = "Deployment" ->
            IF b._deploy.spec.strategy.none THEN "None" ELSE b._deploy.spec.strategy.type
      [] op = "set_strategy" /\ b.kind = "StatefulSet" ->
            IF b._sts.spec.update_strategy.none THEN "None"
            ELSE b._sts.spec.update_strategy.type
      [] op = "set_pod_management_policy" -> b._sts.spec.pod_management_policy

\* C22 as stated: a mutator of an enumerated field raises InvalidArgument
\* for a value outside the field's closed set and stores nothing, and
\* stores a value of the set as it is.
C22_Claimed ==
    bcall.op \in {"set_strategy", "set_pod_management_policy",
                  "add_selector_match_expressions"} =>
        IF EnumArg \notin ClaimedEnum(bld.kind, bcall.op)
        THEN bcall.exc = "ValueError" /\ bld = bcall.before.b
        ELSE /\ bcall.exc = "none"
             /\ bcall.op # "add_selector_match_expressions" =>
                   StoredEnum(bld, bcall.op) = EnumArg

\* the apiVersion the claim gives each workload kind
ClaimedApiVersion(kind) ==
    CASE kind \in {"Deployment", "StatefulSet"} -> "apps/v1"
      [] kind \in {"Job", "CronJob"}            -> "batch/v1"
      [] kind = "Pod"                           -> "v1"

\* Deployment("web", c) after set_replicas(3), set_selector_match_labels(app="web")
\* and set_strategy("RollingUpdate", 1, 0)
ExampleDeployment ==
    LET b1 == Workload_set_replicas(Deployment("web"), 3).b
        b2 == Workload_set_selector_match_labels(b1, ("app" :> "web")).b
    IN  Deployment_set_strategy(b2, "RollingUpdate", IntArg(1), IntArg(0)).b

\* C23 as stated: the manifest of a workload builder carries its kind and
\* the apiVersion of that kind, and the example Deployment emits an apps/v1
\* Deployment with replicas 3, matchLabels {app: web} and a RollingUpdate
\* strategy with maxSurge 1 and maxUnavailable 0.
C23_Claimed ==
    /\ (bld.kind \in WorkloadKinds \cup TemplateKinds /\ bcall.op = "manifest"
          /\ bcall.exc = "none") =>
          /\ Content(LastManifest, bld).body.kind = bld.kind
          /\ Content(LastManifest, bld).body.api_version = ClaimedApiVersion(bld.kind)
    /\ (bld = ExampleDeployment /\ bcall.op = "set_strategy") =>
          LET m == Content(manifest(bld).o, bld).body
          IN  /\ m.api_version = "apps/v1"
              /\ m.kind = "Deployment"
              /\ m.spec.replicas = Replicas(3)
              /\ m.spec.selector.match_labels = DictOf(("app" :> "web"))
              /\ m.spec.strategy = V1DeploymentStrategy("RollingUpdate", IntArg(1), IntArg(0))

-----------------------------------------------------------------------------
(* Properties of the construction of the facade (SpecNew).                 *)

\* the default namespace the claim resolves: the explicit argument, else
\* the namespace file when in-cluster mode is active, else the namespace of
\* the kubeconfig's current context, else "default"
ClaimedNamespace ==
    IF ctor.namespace # NoneArg THEN ctor.namespace.s
    ELSE IF env.service_host # NoneArg /\ env.service_port # NoneArg
    THEN env.namespace_file.s
    ELSE IF env.kubeconfig.exists /\ env.kubeconfig.namespace # NoneArg
    THEN env.kubeconfig.namespace.s
    ELSE "default"

\* C24 as stated: whatever the arguments and the environment, a facade that
\* was constructed where the namespace file can be read has the default
\* namespace of this resolution order.
C24_Claimed ==
    (ctor.pc = "done" /\ ctor.exc = "none" /\ env.namespace_file # NoneArg) =>
        ns = ClaimedNamespace

-----------------------------------------------------------------------------
(* Properties of PodStatus and JobStatus (SpecStatus).                     *)

\* the number of pods of a count
PodCount(x) == IF x.type = "int" THEN x.n ELSE 0

\* the phase the claim derives from the counts of a job status
ClaimedPhase(status) ==
    IF PodCount(status.active) > 0 THEN "Running"
    ELSE IF PodCount(status.succeeded) > 0 THEN "Succeeded"
    ELSE IF PodCount(status.failed) > 0 THEN "Failed"
    ELSE "Unknown"

\* the integer value the claim gives a phase
ClaimedCode(phase) ==
    CASE phase \in {"Running", "Succeeded"} -> 0
      [] phase = "Failed"                   -> 1
      [] OTHER                              -> 255

\* C25 as stated: a JobStatus has the phase Running when the job has
\* active pods, else Succeeded when it has succeeded pods, else Failed when
\* it has failed pods, else an unknown phase; and int() of a status is 0
\* for Running and Succeeded, 1 for Failed, 255 for any other phase.
C25_Claimed ==
    /\ stat.class = "JobStatus" => stat._status = ClaimedPhase(stat.of)
    /\ (stat.class # "none" /\ stat.code # NoneArg) =>
          stat.code = IntArg(ClaimedCode(stat._status))

====
